---- MODULE Spec2Model ----
(***************************************************************************)
(* Model of tensorflow/lite/delegates/gpu/cl/kernels/conv_3d.cc: the       *)
(* Conv3D GPU operation (configuration selection in GuessBestParams, the   *)
(* kernel source generator GenerateConv3D, the launch geometry of          *)
(* GetGridSize, and the Compile / Tune / AddToQueue life cycle).           *)
(*                                                                         *)
(* int3 / int4 values are tuples <<x, y, z>> / <<x, y, z, w>>; the C++     *)
(* index v[i] (i from 0) is At(v, i).  Generated source text is a sequence *)
(* of lines, each line a record [k |-> kind of statement, t |-> the text]. *)
(***************************************************************************)
EXTENDS Integers, Sequences, FiniteSets, TLC

VARIABLES
  device,        \* vendor class of the CLDevice
  definition,    \* OperationDef: [precision, storage, batch]
  attr,          \* Convolution3DAttributes given to the constructor
  slices,        \* [src, dst]: src_slices / dst_slices of GuessBestParams
  kernel_is_1,   \* <<x, y, z>> unit-kernel flags derived from the attributes
  stride_, padding_, kernel_size_, dilation_,   \* Conv3D members (int3)
  conv_params_,  \* Conv3D::ConvParams
  src_, dst_,    \* the tensor vectors (empty until tensors are attached);
                 \* the shape of dst_[0] alone where only GetGridSize acts
  args_,         \* Arguments: declared / set names and values
  kernel_,       \* CLKernel: "none" or "compiled"
  code,          \* the source text returned by the last GenerateConv3D
  grid,          \* result of the last GetGridSize
  last,          \* what the last call did (its status and the hooks it called)
  hist,          \* what has happened to the operator since construction
  nops           \* number of calls made so far

vars == <<device, definition, attr, slices, kernel_is_1, stride_, padding_,
          kernel_size_, dilation_, conv_params_, src_, dst_, args_, kernel_,
          code, grid, last, hist, nops>>

-----------------------------------------------------------------------------
(* Bounds of the model *)

MaxSrcSlices == 9
MaxDstSlices == 33
MaxExtent == 3
MaxOps == 3
MaxLoop == 2
BlockExtents == {1, 2}

-----------------------------------------------------------------------------
(* Enumerations *)

Devices == {"Nvidia", "PowerVR", "Adreno", "Mali", "Other"}
Precisions == {"F32", "F16", "F32_F16"}
StorageTypes == {"BUFFER", "IMAGE_BUFFER", "TEXTURE_2D", "TEXTURE_3D",
                 "SINGLE_TEXTURE_2D"}
WeightsUploadTypes == {"LOCAL_MEM_ASYNC_SUBGROUP", "LOCAL_MEM_BY_THREADS",
                       "GLOBAL_MEM", "TEXTURES_MEM"}
LaunchOrders == {<<0, 1, 2>>, <<0, 2, 1>>, <<1, 0, 2>>, <<1, 2, 0>>,
                 <<2, 0, 1>>, <<2, 1, 0>>}
None == "none"

-----------------------------------------------------------------------------
(* Helpers *)

At(v, i) == v[i + 1]

Min(a, b) == IF a < b THEN a ELSE b

DivideRoundUp(n, divisor) == (n + divisor - 1) \div divisor

\* nothing called yet: no status, no hook called, nothing dispatched
Idle == [op |-> "none", status |-> "ok", bind_called |-> FALSE,
         bound |-> FALSE, bench_called |-> FALSE, dispatched |-> FALSE,
         wgs |-> <<0, 0, 0>>, grid |-> <<0, 0, 0>>]

NoHistory == [generated |-> FALSE, dispatched |-> FALSE, wgs_changes |-> 0]

-----------------------------------------------------------------------------
(* Conv3D::GuessBestParams, the overload taking the slice counts *)

BlockW_4_2_Loose(dst_slices) ==
  IF dst_slices % 4 = 0 \/ dst_slices >= 2 THEN 4
  ELSE IF dst_slices % 2 = 0 \/ dst_slices >= 4 THEN 2
  ELSE dst_slices

BlockW_4_2(dst_slices) ==
  IF dst_slices % 4 = 0 \/ dst_slices >= 8 THEN 4
  ELSE IF dst_slices % 2 = 0 \/ dst_slices >= 4 THEN 2
  ELSE dst_slices

BlockW_8_4_2(dst_slices) ==
  IF dst_slices % 8 = 0 \/ dst_slices >= 32 THEN 8
  ELSE IF dst_slices % 4 = 0 \/ dst_slices >= 8 THEN 4
  ELSE IF dst_slices % 2 = 0 \/ dst_slices >= 4 THEN 2
  ELSE dst_slices

DepthLoop_2_4_BySize(base, src_slices, block_w) ==
  LET l2 == IF src_slices % 2 = 0 \/ src_slices >= 4 THEN 2 ELSE base
  IN  IF (src_slices % 4 = 0 \/ src_slices >= 8) /\ block_w <= 2 THEN 4 ELSE l2

\* if (src % 2 == 0) loop = 2;  if (src % 4 == 0 && block_w <= 2) loop = 4;
DepthLoop_2_4(base, src_slices, block_w) ==
  LET l2 == IF src_slices % 2 = 0 THEN 2 ELSE base
  IN  IF src_slices % 4 = 0 /\ block_w <= 2 THEN 4 ELSE l2

DepthLoopPowerVRF16_AnyTile(src_slices, block_w) ==
  IF src_slices <= 8 THEN src_slices
  ELSE DepthLoop_2_4(1, src_slices, block_w)

\* PowerVR, F16, after block_size.w = min(4, block_size.w)
DepthLoopPowerVRF16(src_slices, block_w) ==
  LET l1 == DepthLoop_2_4(1, src_slices, block_w)
      l2 == IF block_w = 1 /\ src_slices % 2 = 0 THEN 2 ELSE l1
      l3 == IF block_w = 1 /\ src_slices % 4 = 0 THEN 4 ELSE l2
  IN  IF block_w = 1 /\ src_slices <= 8 THEN src_slices ELSE l3

ParamsNvidia(src_slices, dst_slices) ==
  LET w == BlockW_4_2(dst_slices)
  IN  [block_size |-> <<1, 1, 1, w>>,
       work_group_size |-> <<8, 4, 1>>,
       work_group_launch_order |-> <<2, 0, 1>>,
       src_depth_loop_size |-> DepthLoop_2_4(1, src_slices, w),
       weights_upload_type |-> "LOCAL_MEM_BY_THREADS"]

ParamsPowerVR(precision, src_slices, dst_slices) ==
  LET w0 == BlockW_8_4_2(dst_slices)
      w  == Min(4, w0)
  IN  IF precision = "F16"
      THEN [block_size |-> <<2, 1, 1, w>>,
            work_group_size |-> <<4, 8, 1>>,
            work_group_launch_order |-> <<2, 0, 1>>,
            src_depth_loop_size |-> DepthLoopPowerVRF16(src_slices, w),
            weights_upload_type |-> "LOCAL_MEM_ASYNC_SUBGROUP"]
      ELSE [block_size |-> <<1, 1, 1, w0>>,
            work_group_size |-> <<8, 4, 1>>,
            work_group_launch_order |-> <<2, 0, 1>>,
            src_depth_loop_size |-> 1,
            weights_upload_type |-> "LOCAL_MEM_ASYNC_SUBGROUP"]

ParamsAdreno ==
  [block_size |-> <<2, 2, 1, 2>>,
   work_group_size |-> <<8, 4, 1>>,
   work_group_launch_order |-> <<0, 1, 2>>,
   src_depth_loop_size |-> 1,
   weights_upload_type |-> "TEXTURES_MEM"]

ParamsMali(src_slices, dst_slices) ==
  LET w == BlockW_4_2(dst_slices)
  IN  [block_size |-> <<1, 1, 1, w>>,
       work_group_size |-> <<8, 4, 1>>,
       work_group_launch_order |-> <<0, 1, 2>>,
       src_depth_loop_size |-> DepthLoop_2_4(1, src_slices, w),
       weights_upload_type |-> "GLOBAL_MEM"]

ParamsOtherRefined == 
  [block_size |-> <<2, 2, 1, 4>>,
   work_group_size |-> <<8, 4, 1>>,
   work_group_launch_order |-> <<0, 1, 2>>,
   src_depth_loop_size |-> 1,
   weights_upload_type |-> "TEXTURES_MEM"]

ParamsOther ==
  [block_size |-> <<2, 2, 1, 2>>,
   work_group_size |-> <<8, 4, 1>>,
   work_group_launch_order |-> <<0, 1, 2>>,
   src_depth_loop_size |-> 1,
   weights_upload_type |-> "TEXTURES_MEM"]

WithFlags(p, x1, y1, z1) ==
  [block_size |-> p.block_size,
   work_group_size |-> p.work_group_size,
   work_group_launch_order |-> p.work_group_launch_order,
   src_depth_loop_size |-> p.src_depth_loop_size,
   weights_upload_type |-> p.weights_upload_type,
   x_kernel_is_1 |-> x1, y_kernel_is_1 |-> y1, z_kernel_is_1 |-> z1]

GuessBestParams(dev, precision, src_slices, dst_slices, x1, y1, z1) ==
  WithFlags(
    CASE dev = "Nvidia"  -> ParamsNvidia(src_slices, dst_slices)
      [] dev = "PowerVR" -> ParamsPowerVR(precision, src_slices, dst_slices)
      [] dev = "Adreno"  -> ParamsAdreno
      [] dev = "Mali"    -> ParamsMali(src_slices, dst_slices)
      [] OTHER           -> ParamsOther,
    x1, y1, z1)

AreWeightsBuffer(cp) == cp.weights_upload_type # "TEXTURES_MEM"

\* Conv3D::GuessBestParams, the overload taking the attributes
KernelIs1(a) == a.k = 1 /\ a.s = 1 /\ a.dl = 1 /\ a.pp = 0 /\ a.pa = 0

AttrSlices(a) == [src |-> DivideRoundUp(a.i, 4), dst |-> DivideRoundUp(a.o, 4)]

AttrKernelIs1(a) == <<KernelIs1(a.w), KernelIs1(a.h), KernelIs1(a.d)>>

GuessBestParamsAttrYForZ(dev, def, a) ==
  GuessBestParams(dev, def.precision, AttrSlices(a).src, AttrSlices(a).dst,
                  AttrKernelIs1(a)[1], AttrKernelIs1(a)[2], AttrKernelIs1(a)[2])

GuessBestParamsAttr(dev, def, a) ==
  GuessBestParams(dev, def.precision, AttrSlices(a).src, AttrSlices(a).dst,
                  AttrKernelIs1(a)[1], AttrKernelIs1(a)[2], AttrKernelIs1(a)[3])

-----------------------------------------------------------------------------
(* Conv3D::GetGridSize *)

\* grid_x, grid_y, grid_z: the logical element counts
GridElements(cp, dst) ==
  <<DivideRoundUp(dst.Width * dst.Batch, cp.block_size[1]),
    DivideRoundUp(dst.Height, cp.block_size[2]),
    DivideRoundUp(dst.Slices, cp.block_size[4]) *
      DivideRoundUp(dst.Depth, cp.block_size[3])>>

\* wg: work-group counts per logical axis
WorkGroupsFloor(cp, dst) ==
  [i \in 1..3 |-> GridElements(cp, dst)[i] \div cp.work_group_size[i]]

WorkGroups(cp, dst) ==
  [i \in 1..3 |-> DivideRoundUp(GridElements(cp, dst)[i], cp.work_group_size[i])]

GetGridSizeUnpermuted(cp, dst) ==
  [d \in 1..3 |-> WorkGroups(cp, dst)[d] * cp.work_group_size[d]]

GetGridSize(cp, dst) ==
  [d \in 1..3 |->
     At(WorkGroups(cp, dst), At(cp.work_group_launch_order, d - 1)) *
       cp.work_group_size[d]]

-----------------------------------------------------------------------------
(* Source text: a sequence of lines.  A line is [k, a, t]: k the kind of     *)
(* statement, a the axis or object it is about, t the emitted text (without  *)
(* the trailing newline).                                                    *)

S(n) == ToString(n)

Ln(k, a, t) == <<[k |-> k, a |-> a, t |-> t]>>

RECURSIVE Flatten(_)
Flatten(ss) == IF Len(ss) = 0 THEN <<>> ELSE Head(ss) \o Flatten(Tail(ss))

\* for (int i = 0; i < n; ++i) c += F(i);
Cat(n, f) == Flatten([i \in 1..n |-> f[i - 1]])

\* for z, for y, for x over the spatial tile of block_size
CatZYX(bs, f) ==
  Cat(bs[3], [z \in Nat |-> Cat(bs[2], [y \in Nat |-> Cat(bs[1], [x \in Nat |-> f[z, y, x]])])])

\* the three-digit tile id: to_string(z) + to_string(y) + to_string(x)
Id(z, y, x) == S(z) \o S(y) \o S(x)

GetCommonDefines(precision) ==
  Ln("defines", "", "GetCommonDefines(" \o precision \o ")")

GetXStrideCorrected(src_x, batch_size, stride_x, padding_x) ==
  "GetXStrideCorrected(" \o src_x \o ", " \o batch_size \o ", " \o stride_x \o
  ", " \o padding_x \o ")"

-----------------------------------------------------------------------------
(* GenerateUploadByThreads, GenerateAsyncUpload *)

UploadOffset(global_offset_name) ==
  IF global_offset_name = "" THEN "" ELSE global_offset_name \o " + "

UploadLine(indent, local_ptr_name, global_ptr_name, global_offset_name, lid_name, at) ==
  Ln("upload", global_ptr_name,
     indent \o local_ptr_name \o "[" \o lid_name \o " + " \o S(at) \o "] = " \o
     global_ptr_name \o "[" \o UploadOffset(global_offset_name) \o lid_name \o
     " + " \o S(at) \o "];")

GenerateUploadByThreads(local_ptr_name, global_ptr_name, global_offset_name, lid_name, total_work_items, elements_to_upload) ==
  LET groups   == elements_to_upload \div total_work_items
      reminder == elements_to_upload % total_work_items
  IN  Cat(groups, [i \in Nat |->
            UploadLine("    ", local_ptr_name, global_ptr_name,
                       global_offset_name, lid_name, total_work_items * i)])
      \o (IF reminder # 0
          THEN Ln("if_lid", global_ptr_name,
                  "    if (" \o lid_name \o " < " \o S(reminder) \o ") {")
               \o UploadLine("      ", local_ptr_name, global_ptr_name,
                             global_offset_name, lid_name,
                             total_work_items * groups)
               \o Ln("close", global_ptr_name, "    }")
          ELSE <<>>)

GenerateAsyncUpload(local_ptr_name, global_ptr_name, global_offset_name, elements_to_upload) ==
  Ln("async_copy", global_ptr_name,
     "    async_work_group_copy(" \o local_ptr_name \o ", " \o global_ptr_name \o
     (IF global_offset_name = "" THEN "" ELSE " + " \o global_offset_name) \o
     ", " \o S(elements_to_upload) \o ", 0);")

-----------------------------------------------------------------------------
(* GenerateGlobalCoordinates *)

\* launch_remap[work_group_launch_order[d]] = d
LaunchRemapForward(work_group_launch_order) ==
  [a \in 1..3 |-> At(work_group_launch_order, a - 1)]

LaunchRemap(work_group_launch_order) ==
  [a \in 1..3 |-> CHOOSE d \in 0..2 : At(work_group_launch_order, d) = a - 1]

GenerateGlobalCoordinates(block_size, work_group_launch_order) ==
  LET launch_remap == LaunchRemap(work_group_launch_order)
  IN  (IF At(work_group_launch_order, 0) = 0
       THEN Ln("dst_x", "global_id",
               "  int DST_X = get_global_id(0) * " \o S(block_size[1]) \o ";")
       ELSE Ln("dst_x", "group_id",
               "  int DST_X = (get_group_id(" \o S(At(launch_remap, 0)) \o
               ") * get_local_size(0) + get_local_id(0)) * " \o
               S(block_size[1]) \o ";"))
      \o
      (IF At(work_group_launch_order, 1) = 1
       THEN Ln("dst_y", "global_id",
               "  int DST_Y = get_global_id(1) * " \o S(block_size[2]) \o ";")
       ELSE Ln("dst_y", "group_id",
               "  int DST_Y = (get_group_id(" \o S(At(launch_remap, 1)) \o
               ") * get_local_size(1) + get_local_id(1)) * " \o
               S(block_size[2]) \o ";"))
      \o
      (IF At(work_group_launch_order, 2) = 2
       THEN Ln("linear_id_z", "global_id",
               "  int linear_id_z = get_global_id(2);")
       ELSE Ln("linear_id_z", "group_id",
               "  int linear_id_z = get_group_id(" \o S(At(launch_remap, 2)) \o
               ") * get_local_size(2) + get_local_id(2);"))
      \o Ln("dst_s", "",
            "  int DST_S = (linear_id_z % args.grid_size_s) * " \o
            S(block_size[4]) \o ";")
      \o Ln("dst_z", "",
            "  int DST_Z = (linear_id_z / args.grid_size_s) * " \o
            S(block_size[3]) \o ";")

-----------------------------------------------------------------------------
(* GenerateConv *)

Channels == <<"x", "y", "z", "w">>

WeightName(weights_are_buffer, weight_id) ==
  IF weights_are_buffer THEN "weights_cache[" \o S(weight_id) \o "]"
  ELSE "f" \o S(weight_id)

GenerateConv(precision, block_size, offset, weights_are_buffer) ==
  Cat(block_size[4], [s \in Nat |->
    IF precision \in {"F32", "F16"}
    THEN Cat(4, [ch \in Nat |->
           CatZYX(block_size, [z \in Nat, y \in Nat, x \in Nat |->
             Ln("fma", WeightName(weights_are_buffer, s * 4 + ch + offset),
                "    r" \o S(s) \o Id(z, y, x) \o " += " \o
                WeightName(weights_are_buffer, s * 4 + ch + offset) \o
                " * src" \o Id(z, y, x) \o "." \o Channels[ch + 1] \o ";")])])
    ELSE CatZYX(block_size, [z \in Nat, y \in Nat, x \in Nat |->
           Ln("fma", WeightName(weights_are_buffer, s * 4 + offset),
              "    r" \o S(s) \o Id(z, y, x) \o " += convert_float4(src" \o
              Id(z, y, x) \o ".x * " \o
              WeightName(weights_are_buffer, s * 4 + 0 + offset) \o " + src" \o
              Id(z, y, x) \o ".y * " \o
              WeightName(weights_are_buffer, s * 4 + 1 + offset) \o " + src" \o
              Id(z, y, x) \o ".z * " \o
              WeightName(weights_are_buffer, s * 4 + 2 + offset) \o " + src" \o
              Id(z, y, x) \o ".w * " \o
              WeightName(weights_are_buffer, s * 4 + 3 + offset) \o ");")])])

-----------------------------------------------------------------------------
(* GenerateConv3D: the arguments it declares *)

AxisInts(axis) ==
  <<"stride_" \o axis, "padding_" \o axis, "kernel_size_" \o axis,
    "dilation_" \o axis>>

\* args->AddInt(...), in order
DeclaredInts(cp) ==
  (IF ~cp.x_kernel_is_1 THEN AxisInts("x") ELSE <<>>)
  \o (IF ~cp.y_kernel_is_1 THEN AxisInts("y") ELSE <<>>)
  \o (IF ~cp.z_kernel_is_1 THEN AxisInts("z") ELSE <<>>)
  \o <<"grid_size_s">>

\* args->AddObjectRef(...), in order
DeclaredRefs == <<"src_tensor", "dst_tensor">>

-----------------------------------------------------------------------------
(* GenerateConv3D: the derived flags *)

BufferType(def) == def.storage \in {"BUFFER", "IMAGE_BUFFER"}

ManualClampX(def, cp) == BufferType(def) /\ ~cp.x_kernel_is_1
ManualClampY(def, cp) == BufferType(def) /\ ~cp.y_kernel_is_1
ManualClampZBufferOnly(def, cp) == BufferType(def) /\ ~cp.z_kernel_is_1

ManualClampZ(def, cp) == def.storage # "TEXTURE_3D" /\ ~cp.z_kernel_is_1

CanReadOutOfXAlways(def) == TRUE

CanReadOutOfX(def) == ~BufferType(def)
CanReadOutOfY(def) == ~BufferType(def)
CanReadOutOfZ(def) ==
  def.storage \in {"TEXTURE_3D", "TEXTURE_2D", "SINGLE_TEXTURE_2D"}

Is1x1x1(cp) == cp.x_kernel_is_1 /\ cp.y_kernel_is_1 /\ cp.z_kernel_is_1

NeedLocalMemAsyncOnly(cp) ==
  cp.weights_upload_type = "LOCAL_MEM_ASYNC_SUBGROUP"

NeedLocalMem(cp) ==
  cp.weights_upload_type \in {"LOCAL_MEM_BY_THREADS", "LOCAL_MEM_ASYNC_SUBGROUP"}

BoundsGate ==
  Ln("bounds_gate", "",
     "  if (DST_X >= args.dst_tensor.Width() || DST_Y >= " \o
     "args.dst_tensor.Height() || DST_Z >= args.dst_tensor.Depth()) " \o
     "return;")

-----------------------------------------------------------------------------
(* GenerateConv3D: kernel head, accumulators, coordinate precompute *)

GenHeadGateAlways(def, cp) ==
  GetCommonDefines(def.precision)
  \o (IF NeedLocalMem(cp)
      THEN Ln("reqd_work_group_size", "",
              "__attribute__((reqd_work_group_size(" \o
              S(cp.work_group_size[1]) \o ", " \o S(cp.work_group_size[2]) \o
              ", " \o S(cp.work_group_size[3]) \o ")))")
      ELSE <<>>)
  \o Ln("kernel", "", "__kernel void main_function(")
  \o Ln("kernel_open", "", "$0) {")
  \o GenerateGlobalCoordinates(cp.block_size, cp.work_group_launch_order)
  \o BoundsGate
  \o (IF cp.weights_upload_type = "LOCAL_MEM_BY_THREADS"
      THEN Ln("lid", "",
              "  int lid = get_local_id(1) * " \o S(cp.work_group_size[1]) \o
              " + get_local_id(0);")
      ELSE <<>>)

GenHead(def, cp) ==
  GetCommonDefines(def.precision)
  \o (IF NeedLocalMem(cp)
      THEN Ln("reqd_work_group_size", "",
              "__attribute__((reqd_work_group_size(" \o
              S(cp.work_group_size[1]) \o ", " \o S(cp.work_group_size[2]) \o
              ", " \o S(cp.work_group_size[3]) \o ")))")
      ELSE <<>>)
  \o Ln("kernel", "", "__kernel void main_function(")
  \o Ln("kernel_open", "", "$0) {")
  \o GenerateGlobalCoordinates(cp.block_size, cp.work_group_launch_order)
  \o (IF ~NeedLocalMem(cp) THEN BoundsGate ELSE <<>>)
  \o (IF cp.weights_upload_type = "LOCAL_MEM_BY_THREADS"
      THEN Ln("lid", "",
              "  int lid = get_local_id(1) * " \o S(cp.work_group_size[1]) \o
              " + get_local_id(0);")
      ELSE <<>>)

GenAccumulators(cp) ==
  Cat(cp.block_size[4], [s \in Nat |->
    CatZYX(cp.block_size, [z \in Nat, y \in Nat, x \in Nat |->
      Ln("accum", "",
         "  ACCUM_FLT4 r" \o S(s) \o S(z) \o S(y) \o S(x) \o
         " = (ACCUM_FLT4)(0.0f, 0.0f, 0.0f, 0.0f);")])])

GenCoordX(def, stride_correction, cp) ==
  IF ~cp.x_kernel_is_1
  THEN Cat(cp.block_size[1], [x \in Nat |->
         IF stride_correction
         THEN Ln("coord", "x",
                 "  int xc" \o S(x) \o " = " \o
                 GetXStrideCorrected("(DST_X + " \o S(x) \o ")",
                                     "args.src_tensor.Batch()",
                                     "args.stride_x", "args.padding_x") \o ";")
         ELSE Ln("coord", "x",
                 "  int xc" \o S(x) \o " = (DST_X + " \o S(x) \o
                 ") * args.stride_x + args.padding_x;")])
  ELSE IF ~CanReadOutOfX(def)
  THEN Cat(cp.block_size[1], [x \in Nat |->
         Ln("coord_clamp", "x",
            "  int xc" \o S(x) \o " = clamp((DST_X + " \o S(x) \o
            "), 0, args.src_tensor.Width() - 1);")])
  ELSE <<>>

GenCoordY(def, cp) ==
  IF ~cp.y_kernel_is_1
  THEN Cat(cp.block_size[2], [y \in Nat |->
         Ln("coord", "y",
            "  int yc" \o S(y) \o " = (DST_Y + " \o S(y) \o
            ") * args.stride_y + args.padding_y;")])
  ELSE IF ~CanReadOutOfY(def)
  THEN Cat(cp.block_size[2], [y \in Nat |->
         Ln("coord_clamp", "y",
            "  int yc" \o S(y) \o " = clamp((DST_Y + " \o S(y) \o
            "), 0, args.src_tensor.Height() - 1);")])
  ELSE <<>>

GenCoordZ(def, cp) ==
  IF ~cp.z_kernel_is_1
  THEN Cat(cp.block_size[3], [z \in Nat |->
         Ln("coord", "z",
            "  int zc" \o S(z) \o " = (DST_Z + " \o S(z) \o
            ") * args.stride_z + args.padding_z;")])
  ELSE IF ~CanReadOutOfZ(def)
  THEN Cat(cp.block_size[3], [z \in Nat |->
         Ln("coord_clamp", "z",
            "  int zc" \o S(z) \o " = clamp((DST_Z + " \o S(z) \o
            "), 0, args.src_tensor.Depth() - 1);")])
  ELSE <<>>

-----------------------------------------------------------------------------
(* GenerateConv3D: declarations before the loops *)

\* block_size.w * 4 * src_depth_loop_size
WeightsCacheSizeNoUnroll(cp) == cp.block_size[4] * 4

WeightsCacheSize(cp) == cp.block_size[4] * 4 * cp.src_depth_loop_size

KernelSizeFactor(cp) ==
  (IF cp.x_kernel_is_1 THEN "" ELSE " * args.kernel_size_x")
  \o (IF cp.y_kernel_is_1 THEN "" ELSE " * args.kernel_size_y")
  \o (IF cp.z_kernel_is_1 THEN "" ELSE " * args.kernel_size_z")

GenDecls(def, cp) ==
  (IF NeedLocalMem(cp)
   THEN Ln("local_decl", "weights_cache",
           "  __local FLT4 weights_cache[" \o S(WeightsCacheSize(cp)) \o "];")
   ELSE <<>>)
  \o (IF cp.weights_upload_type = "GLOBAL_MEM"
      THEN Ln("global_decl", "weights_cache", "  __global FLT4* weights_cache;")
      ELSE <<>>)
  \o (IF AreWeightsBuffer(cp)
      THEN Ln("filters_loc", "",
              "  __global FLT4* filters_loc = args.weights.GetPtr() + DST_S * 4 * " \o
              "args.src_tensor.Slices()" \o KernelSizeFactor(cp) \o ";")
      ELSE <<>>)
  \o (IF BufferType(def)
      THEN Ln("src_layer_offset", "",
              "  const int src_layer_offset = args.src_tensor.SliceStride();")
      ELSE <<>>)
  \o (IF ~Is1x1x1(cp)
      THEN Ln("filter_offset", "", "  int filter_offset = 0;")
      ELSE <<>>)

-----------------------------------------------------------------------------
(* GenerateConv3D: the runtime spatial loops *)

\* one tap coordinate, with its validity flag and clamp when tracked manually
GenTap(axis, i, extent, manual_clamp) ==
  LET ck == axis \o "ck" \o S(i)
  IN  Ln("tap", axis,
         "  int " \o ck \o " = k" \o axis \o " * args.dilation_" \o axis \o
         " + " \o axis \o "c" \o S(i) \o ";")
      \o (IF manual_clamp
          THEN Ln("mask", axis,
                  "  bool m" \o axis \o S(i) \o " = " \o ck \o " >= 0 && " \o
                  ck \o " < args.src_tensor." \o extent \o "();")
               \o Ln("clamp", axis,
                     "  " \o ck \o " = clamp(" \o ck \o
                     ", 0, args.src_tensor." \o extent \o "() - 1);")
          ELSE <<>>)

GenLoop(axis, n, extent, manual_clamp) ==
  Ln("for", axis,
     "  for (int k" \o axis \o " = 0; k" \o axis \o " < args.kernel_size_" \o
     axis \o "; ++k" \o axis \o ") {")
  \o Cat(n, [i \in Nat |-> GenTap(axis, i, extent, manual_clamp)])

GenLoopsOpen(def, cp) ==
  (IF ~cp.z_kernel_is_1
   THEN GenLoop("z", cp.block_size[3], "Depth", ManualClampZ(def, cp))
   ELSE <<>>)
  \o (IF ~cp.y_kernel_is_1
      THEN GenLoop("y", cp.block_size[2], "Height", ManualClampY(def, cp))
      ELSE <<>>)
  \o (IF ~cp.x_kernel_is_1
      THEN GenLoop("x", cp.block_size[1], "Width", ManualClampX(def, cp))
      ELSE <<>>)

GenLoopsCloseYX(cp) ==
  (IF ~cp.y_kernel_is_1 THEN Ln("close", "y", "  }") ELSE <<>>)
  \o (IF ~cp.x_kernel_is_1 THEN Ln("close", "x", "  }") ELSE <<>>)

GenLoopsClose(cp) ==
  (IF ~cp.z_kernel_is_1 THEN Ln("close", "z", "  }") ELSE <<>>)
  \o (IF ~cp.y_kernel_is_1 THEN Ln("close", "y", "  }") ELSE <<>>)
  \o (IF ~cp.x_kernel_is_1 THEN Ln("close", "x", "  }") ELSE <<>>)

-----------------------------------------------------------------------------
(* GenerateConv3D: source coordinates, addresses and reads *)

GetSrcCoord(axis, dst_name, id, is_1, can_read_out) ==
  IF is_1
  THEN IF can_read_out THEN dst_name \o " + " \o S(id)
       ELSE axis \o "c" \o S(id)
  ELSE axis \o "ck" \o S(id)

GetSrcXCoord(def, cp, id) ==
  GetSrcCoord("x", "DST_X", id, cp.x_kernel_is_1, CanReadOutOfX(def))
GetSrcYCoord(def, cp, id) ==
  GetSrcCoord("y", "DST_Y", id, cp.y_kernel_is_1, CanReadOutOfY(def))
GetSrcZCoord(def, cp, id) ==
  GetSrcCoord("z", "DST_Z", id, cp.z_kernel_is_1, CanReadOutOfZ(def))

\* the conjunction of the validity flags of the axes tracked manually
JoinAnd(parts) ==
  IF Len(parts) = 0 THEN ""
  ELSE IF Len(parts) = 1 THEN parts[1]
  ELSE IF Len(parts) = 2 THEN parts[1] \o " && " \o parts[2]
  ELSE parts[1] \o " && " \o parts[2] \o " && " \o parts[3]

MaskCondition(def, cp, z, y, x) ==
  JoinAnd((IF ManualClampX(def, cp) THEN <<"mx" \o S(x)>> ELSE <<>>)
          \o (IF ManualClampY(def, cp) THEN <<"my" \o S(y)>> ELSE <<>>)
          \o (IF ManualClampZ(def, cp) THEN <<"mz" \o S(z)>> ELSE <<>>))

AddressOffsetModeBufferOnly(def, cp) == ~Is1x1x1(cp) /\ def.storage = "BUFFER"

\* IMAGE_BUFFER with a non-unit kernel: masked address and its dz step
AddressOffsetMode(def, cp) == ~Is1x1x1(cp) /\ def.storage = "IMAGE_BUFFER"

GenAddresses(def, cp) ==
  IF BufferType(def)
  THEN CatZYX(cp.block_size, [z \in Nat, y \in Nat, x \in Nat |->
         Ln("get_address", Id(z, y, x),
            "  args.src_tensor.GetAddress(src_a_" \o Id(z, y, x) \o ", " \o
            GetSrcXCoord(def, cp, x) \o ", " \o GetSrcYCoord(def, cp, y) \o
            ", " \o GetSrcZCoord(def, cp, z) \o ", 0);")
         \o (IF AddressOffsetMode(def, cp)
             THEN Ln("select_address", Id(z, y, x),
                     "  src_a_" \o Id(z, y, x) \o " = select(-1, src_a_" \o
                     Id(z, y, x) \o ", " \o MaskCondition(def, cp, z, y, x) \o
                     ");")
                  \o Ln("dz", Id(z, y, x),
                        "  int dz_" \o Id(z, y, x) \o
                        " = select(0, src_layer_offset, " \o
                        MaskCondition(def, cp, z, y, x) \o ");")
             ELSE <<>>)])
  ELSE <<>>

DeclareSrc(cp) ==
  CatZYX(cp.block_size, [z \in Nat, y \in Nat, x \in Nat |->
    Ln("src_decl", Id(z, y, x), "  FLT4 src" \o Id(z, y, x) \o ";")])

Multiplier(def, cp, z, y, x) ==
  (IF ManualClampX(def, cp) THEN " * (FLT)(mx" \o S(x) \o ")" ELSE "")
  \o (IF ManualClampY(def, cp) THEN " * (FLT)(my" \o S(y) \o ")" ELSE "")
  \o (IF ManualClampZ(def, cp) THEN " * (FLT)(mz" \o S(z) \o ")" ELSE "")

ReadSrc(def, cp) ==
  CatZYX(cp.block_size, [z \in Nat, y \in Nat, x \in Nat |->
    IF BufferType(def)
    THEN Ln("read_src", Id(z, y, x),
            "    src" \o Id(z, y, x) \o " = args.src_tensor.Read(src_a_" \o
            Id(z, y, x) \o ")" \o
            (IF def.storage = "IMAGE_BUFFER" THEN ""
             ELSE Multiplier(def, cp, z, y, x)) \o ";")
         \o (IF AddressOffsetMode(def, cp)
             THEN Ln("address_step", Id(z, y, x),
                     "    src_a_" \o Id(z, y, x) \o " += dz_" \o Id(z, y, x) \o
                     ";")
             ELSE Ln("address_step", Id(z, y, x),
                     "    src_a_" \o Id(z, y, x) \o " += src_layer_offset;"))
    ELSE Ln("read_src", Id(z, y, x),
            "    src" \o Id(z, y, x) \o " = args.src_tensor.Read(" \o
            GetSrcXCoord(def, cp, x) \o ", " \o GetSrcYCoord(def, cp, y) \o
            ", " \o GetSrcZCoord(def, cp, z) \o ", s)" \o
            Multiplier(def, cp, z, y, x) \o ";")])

-----------------------------------------------------------------------------
(* GenerateConv3D: the channel-group reduction loop *)

TotalWorkItems(cp) ==
  cp.work_group_size[1] * cp.work_group_size[2] * cp.work_group_size[3]

Barrier(indent) == Ln("barrier", "", indent \o "barrier(CLK_LOCAL_MEM_FENCE);")

WeightsTextureRead(k, dst_s, f_y) ==
  Ln("weights_read", "weights" \o S(k),
     "    FLT4 f" \o S(dst_s * 4 + k) \o " = args.weights" \o S(k) \o
     ".Read(DST_S + " \o S(dst_s) \o ", " \o f_y \o ");")

GenWeightsStaging(cp) ==
  CASE cp.weights_upload_type = "LOCAL_MEM_ASYNC_SUBGROUP" ->
         GenerateAsyncUpload("weights_cache", "filters_loc", "",
                             WeightsCacheSize(cp))
    [] cp.weights_upload_type = "LOCAL_MEM_BY_THREADS" ->
         Barrier("    ")
         \o GenerateUploadByThreads("weights_cache", "filters_loc", "", "lid",
                                    TotalWorkItems(cp), WeightsCacheSize(cp))
    [] cp.weights_upload_type = "GLOBAL_MEM" ->
         Ln("weights_ptr", "filters_loc", "    weights_cache = filters_loc;")
    [] OTHER ->
         Cat(cp.block_size[4], [dst_s \in Nat |->
           Cat(4, [k \in Nat |->
             WeightsTextureRead(k, dst_s,
                                IF Is1x1x1(cp) THEN "s" ELSE "filter_offset")])])
         \o (IF ~Is1x1x1(cp)
             THEN Ln("filter_offset_inc", "", "    filter_offset++;")
             ELSE <<>>)

SInc == Ln("s_inc", "", "    s += 1;")

GenReduction(def, cp) ==
  Ln("s_init", "", "  int s = 0;")
  \o DeclareSrc(cp)
  \o Ln("do", "", "  do {")
  \o GenWeightsStaging(cp)
  \o ReadSrc(def, cp)
  \o SInc
  \o (IF cp.weights_upload_type = "LOCAL_MEM_BY_THREADS"
      THEN Barrier("    ") ELSE <<>>)
  \o GenerateConv(def.precision, cp.block_size, 0, AreWeightsBuffer(cp))
  \o Cat(cp.src_depth_loop_size - 1, [j \in Nat |->
       ReadSrc(def, cp)
       \o GenerateConv(def.precision, cp.block_size,
                       (j + 1) * cp.block_size[4] * 4, AreWeightsBuffer(cp))
       \o SInc])
  \o (IF AreWeightsBuffer(cp)
      THEN Ln("filters_advance", "",
              "    filters_loc += " \o S(WeightsCacheSize(cp)) \o ";")
      ELSE <<>>)
  \o Ln("while", "", "  } while (s < args.src_tensor.Slices());")

-----------------------------------------------------------------------------
(* GenerateConv3D: bias staging and the guarded writes *)

GenBiasNoBarrierAfter(cp) ==
  CASE cp.weights_upload_type = "LOCAL_MEM_ASYNC_SUBGROUP" ->
         GenerateAsyncUpload("weights_cache", "args.biases.GetPtr()", "DST_S",
                             cp.block_size[4])
    [] cp.weights_upload_type = "LOCAL_MEM_BY_THREADS" ->
         Barrier("  ")
         \o GenerateUploadByThreads("weights_cache", "args.biases.GetPtr()",
                                    "DST_S", "lid", TotalWorkItems(cp),
                                    cp.block_size[4])
    [] cp.weights_upload_type = "GLOBAL_MEM" ->
         Ln("weights_ptr", "args.biases.GetPtr()",
            "  weights_cache = args.biases.GetPtr() + DST_S;")
    [] OTHER -> <<>>

GenBias(cp) ==
  CASE cp.weights_upload_type = "LOCAL_MEM_ASYNC_SUBGROUP" ->
         GenerateAsyncUpload("weights_cache", "args.biases.GetPtr()", "DST_S",
                             cp.block_size[4])
    [] cp.weights_upload_type = "LOCAL_MEM_BY_THREADS" ->
         Barrier("  ")
         \o GenerateUploadByThreads("weights_cache", "args.biases.GetPtr()",
                                    "DST_S", "lid", TotalWorkItems(cp),
                                    cp.block_size[4])
         \o Barrier("  ")
    [] cp.weights_upload_type = "GLOBAL_MEM" ->
         Ln("weights_ptr", "args.biases.GetPtr()",
            "  weights_cache = args.biases.GetPtr() + DST_S;")
    [] OTHER -> <<>>

Plus(name, i) == IF i = 0 THEN name ELSE name \o " + " \o S(i)

GenWrite(cp) ==
  Cat(cp.block_size[4], [s \in Nat |->
    Ln("slice_gate", "",
       "  if (" \o Plus("DST_S", s) \o " >= args.dst_tensor.Slices()) return;")
    \o CatZYX(cp.block_size, [z \in Nat, y \in Nat, x \in Nat |->
         Ln("if_write", "",
            "  if (" \o Plus("DST_X", x) \o " < args.dst_tensor.Width() && " \o
            Plus("DST_Y", y) \o " < args.dst_tensor.Height() && " \o
            Plus("DST_Z", z) \o " < args.dst_tensor.Depth()) {")
         \o (IF AreWeightsBuffer(cp)
             THEN Ln("result", "weights_cache",
                     "    FLT4 res = TO_FLT4(r" \o S(s) \o S(z) \o S(y) \o S(x) \o
                     ") + weights_cache[" \o S(s) \o "];")
             ELSE Ln("result", "biases",
                     "    FLT4 res = TO_FLT4(r" \o S(s) \o S(z) \o S(y) \o S(x) \o
                     ") + args.biases.Read(" \o Plus("DST_S", s) \o ");"))
         \o Ln("write", "",
               "    args.dst_tensor.Write(res, " \o Plus("DST_X", x) \o ", " \o
               Plus("DST_Y", y) \o ", " \o Plus("DST_Z", z) \o ", " \o
               Plus("DST_S", s) \o ");")
         \o Ln("close", "", "  }")])])

-----------------------------------------------------------------------------
(* GenerateConv3D *)

GenerateConv3D(def, stride_correction, cp) ==
  GenHead(def, cp)
  \o GenAccumulators(cp)
  \o GenCoordX(def, stride_correction, cp)
  \o GenCoordY(def, cp)
  \o GenCoordZ(def, cp)
  \o GenDecls(def, cp)
  \o GenLoopsOpen(def, cp)
  \o GenAddresses(def, cp)
  \o GenReduction(def, cp)
  \o GenLoopsClose(cp)
  \o GenBias(cp)
  \o (IF NeedLocalMem(cp) THEN BoundsGate ELSE <<>>)
  \o GenWrite(cp)
  \o Ln("close", "", "}")

-----------------------------------------------------------------------------
(* Arguments: declaring, setting and binding *)

NoArgs == [refs |-> <<>>, ints |-> <<>>, set |-> {}]

Range(f) == {f[i] : i \in DOMAIN f}

\* the arguments after GenerateConv3D has declared them (values not yet set)
DeclareArgs(cp) == [refs |-> DeclaredRefs, ints |-> DeclaredInts(cp), set |-> {}]

\* Arguments::SetObjectRef: an error when no object of that name was declared
SetObjectRefOk(args, name) == name \in Range(args.refs)

\* Arguments::SetInt: an error when no int of that name was declared
SetIntOk(args, name) == name \in Range(args.ints)

\* RETURN_IF_ERROR(args_.SetInt(name, value)) for each pair in turn
RECURSIVE SetInts(_, _)
SetInts(args, pairs) ==
  IF Len(pairs) = 0 THEN [ok |-> TRUE, args |-> args]
  ELSE IF ~SetIntOk(args, Head(pairs)[1]) THEN [ok |-> FALSE, args |-> args]
  ELSE SetInts([args EXCEPT !.set =
                  {p \in args.set : p[1] # Head(pairs)[1]} \cup {Head(pairs)}],
               Tail(pairs))

-----------------------------------------------------------------------------
(* The tensor vectors src_ and dst_ of the operator *)

\* the process has ended inside Tune or AddToQueue: nothing is called on the
\* operator any more
Crashed == [Idle EXCEPT !.op = "crashed", !.status = "crash"]

Alive == last.status # "crash"

\* src_[0] or dst_[0] is read from an empty vector
Unattached == Len(src_) = 0 \/ Len(dst_) = 0

\* What the read of element 0 of an empty vector yields when the process
\* survives it: a pointer to memory that holds no tensor of the operator
StraySrcTensors == {[Batch |-> 3]}

StrayDstTensors ==
  {[Width |-> 7, Height |-> 2, Depth |-> 3, Slices |-> 5, Batch |-> 3]}

\* src_[0] and dst_[0]
SrcRead == IF Len(src_) > 0 THEN {src_[1]} ELSE StraySrcTensors

DstRead == IF Len(dst_) > 0 THEN {dst_[1]} ELSE StrayDstTensors

\* reading element 0 of an empty vector is undefined: the process may end
SurvivalOutcomes == IF Unattached THEN BOOLEAN ELSE {TRUE}

-----------------------------------------------------------------------------
(* Conv3D::BindArguments *)

BoundXInts(stride, padding, kernel_size, dilation, batch) ==
  <<<<"stride_x", stride[1]>>, <<"padding_x", padding[1] * batch>>,
    <<"kernel_size_x", kernel_size[1]>>, <<"dilation_x", dilation[1] * batch>>>>

BoundYInts(stride, padding, kernel_size, dilation) ==
  <<<<"stride_y", stride[2]>>, <<"padding_y", padding[2]>>,
    <<"kernel_size_y", kernel_size[2]>>, <<"dilation_y", dilation[2]>>>>

BoundZIntsNoDilation(stride, padding, kernel_size, dilation) ==
  <<<<"stride_z", stride[3]>>, <<"padding_z", padding[3]>>,
    <<"kernel_size_z", kernel_size[3]>>>>

BoundZInts(stride, padding, kernel_size, dilation) ==
  <<<<"stride_z", stride[3]>>, <<"padding_z", padding[3]>>,
    <<"kernel_size_z", kernel_size[3]>>, <<"dilation_z", dilation[3]>>>>

\* the SetInt calls of BindArguments, in order
BoundInts(cp, stride, padding, kernel_size, dilation, src, dst) ==
  (IF ~cp.x_kernel_is_1
   THEN BoundXInts(stride, padding, kernel_size, dilation, src.Batch)
   ELSE <<>>)
  \o (IF ~cp.y_kernel_is_1
      THEN BoundYInts(stride, padding, kernel_size, dilation) ELSE <<>>)
  \o (IF ~cp.z_kernel_is_1
      THEN BoundZInts(stride, padding, kernel_size, dilation) ELSE <<>>)
  \o <<<<"grid_size_s", DivideRoundUp(dst.Slices, cp.block_size[4])>>>>

\* The result of BindArguments: its status, the arguments as it leaves them
\* and whether args_.Bind(kernel) was reached.  set_args_ok is the outcome of
\* the external SetArguments(linked_operations_, &args_), after whose failure
\* BindArguments returns without calling args_.Bind; bind_ok is the outcome
\* of the external args_.Bind.
BindArguments(args, cp, stride, padding, kernel_size, dilation, src, dst, set_args_ok, bind_ok) ==
  IF ~SetObjectRefOk(args, "src_tensor") \/ ~SetObjectRefOk(args, "dst_tensor")
  THEN [status |-> "error", args |-> args, bound |-> FALSE]
  ELSE LET r == SetInts(args, BoundInts(cp, stride, padding, kernel_size,
                                        dilation, src, dst))
       IN  IF ~r.ok THEN [status |-> "error", args |-> r.args, bound |-> FALSE]
           ELSE IF ~set_args_ok
           THEN [status |-> "error", args |-> r.args, bound |-> FALSE]
           ELSE [status |-> IF bind_ok THEN "ok" ELSE "error",
                 args |-> r.args, bound |-> TRUE]

-----------------------------------------------------------------------------
(* Conv3D::Compile *)

StrideCorrection(def, stride) == def.batch /\ stride[1] # 1

\* compile_ok is the outcome of the external MergeOperations,
\* TransformToCLCode and GetOrCreateCLKernel calls
Compile(compile_ok) ==
  /\ nops < MaxOps
  /\ Alive
  /\ nops' = nops + 1
  /\ code' = GenerateConv3D(definition, StrideCorrection(definition, stride_),
                            conv_params_)
  /\ args_' = DeclareArgs(conv_params_)
  /\ kernel_' = IF compile_ok THEN "compiled" ELSE kernel_
  /\ last' = [Idle EXCEPT !.op = "Compile",
                          !.status = IF compile_ok THEN "ok" ELSE "error"]
  /\ hist' = [hist EXCEPT !.generated = TRUE]
  /\ UNCHANGED <<device, definition, attr, slices, kernel_is_1, stride_,
                 padding_, kernel_size_, dilation_, conv_params_, src_, dst_,
                 grid>>

-----------------------------------------------------------------------------
(* Conv3D::Tune *)

\* The work-group sizes the external GetBestWorkGroupConv may write
WorkGroupCandidates == {<<8, 4, 1>>, <<16, 2, 1>>}

TuneSkipsDefaultOrder(cp) ==
  /\ At(cp.work_group_launch_order, 0) = 0
  /\ At(cp.work_group_launch_order, 1) = 1
  /\ At(cp.work_group_launch_order, 2) = 2

TuneAlwaysSearches(cp) == FALSE

\* Tune returns OkStatus at once: a local-memory upload type, or a launch
\* order other than (0, 1, 2)
TuneSkips(cp) ==
  \/ cp.weights_upload_type \in {"LOCAL_MEM_ASYNC_SUBGROUP",
                                 "LOCAL_MEM_BY_THREADS"}
  \/ ~(/\ At(cp.work_group_launch_order, 0) = 0
       /\ At(cp.work_group_launch_order, 1) = 1
       /\ At(cp.work_group_launch_order, 2) = 2)

TunedParamsWithUnroll(cp, best) ==
  [cp EXCEPT !.work_group_size = best, !.src_depth_loop_size = 1]

\* GetBestWorkGroupConv(..., &conv_params_.work_group_size) on success
TunedParams(cp, best) == [cp EXCEPT !.work_group_size = best]

TuneSkip ==
  /\ nops < MaxOps
  /\ Alive
  /\ TuneSkips(conv_params_)
  /\ nops' = nops + 1
  /\ last' = [Idle EXCEPT !.op = "Tune"]
  /\ UNCHANGED <<device, definition, attr, slices, kernel_is_1, stride_,
                 padding_, kernel_size_, dilation_, conv_params_, src_, dst_,
                 args_, kernel_, code, grid, hist>>

\* src, dst: the tensors src_[0] and dst_[0] yield; survives: whether the
\* process survives those reads (it may not when a vector is empty);
\* set_args_ok, bind_ok: outcomes of the external calls of BindArguments;
\* best: the size GetBestWorkGroupConv writes, or <<0, 0, 0>> when it fails
TuneSearch(src, dst, survives, set_args_ok, bind_ok, best) ==
  /\ nops < MaxOps
  /\ Alive
  /\ ~TuneSkips(conv_params_)
  /\ nops' = nops + 1
  /\ IF ~survives
     THEN /\ last' = Crashed
          /\ UNCHANGED <<args_, grid, conv_params_, hist>>
     ELSE LET b == BindArguments(args_, conv_params_, stride_, padding_,
                                 kernel_size_, dilation_, src, dst,
                                 set_args_ok, bind_ok)
              searched == b.status = "ok"
              found == searched /\ best # <<0, 0, 0>>
          IN  /\ args_' = b.args
              /\ grid' = IF searched THEN GetGridSize(conv_params_, dst)
                         ELSE grid
              /\ conv_params_' =
                   IF found THEN TunedParams(conv_params_, best)
                   ELSE conv_params_
              /\ hist' = IF found /\ best # conv_params_.work_group_size
                         THEN [hist EXCEPT
                                 !.wgs_changes = hist.wgs_changes + 1]
                         ELSE hist
              /\ last' = [Idle EXCEPT
                            !.op = "Tune",
                            !.status = IF found THEN "ok" ELSE "error",
                            !.bind_called = TRUE,
                            !.bound = b.bound,
                            !.bench_called = searched,
                            !.grid = IF searched
                                     THEN GetGridSize(conv_params_, dst)
                                     ELSE <<0, 0, 0>>]
  /\ UNCHANGED <<device, definition, attr, slices, kernel_is_1, stride_,
                 padding_, kernel_size_, dilation_, src_, dst_, kernel_, code>>

-----------------------------------------------------------------------------
(* Conv3D::AddToQueue *)

\* src, dst, survives: as for Tune; dispatch_ok: outcome of the external
\* CLCommandQueue::DispatchImplicit
AddToQueue(src, dst, survives, set_args_ok, bind_ok, dispatch_ok) ==
  /\ nops < MaxOps
  /\ Alive
  /\ nops' = nops + 1
  /\ IF ~survives
     THEN /\ last' = Crashed
          /\ UNCHANGED <<args_, grid, hist>>
     ELSE LET b == BindArguments(args_, conv_params_, stride_, padding_,
                                 kernel_size_, dilation_, src, dst,
                                 set_args_ok, bind_ok)
              dispatched == b.status = "ok"
          IN  /\ args_' = b.args
              /\ grid' = IF dispatched THEN GetGridSize(conv_params_, dst)
                         ELSE grid
              /\ hist' = IF dispatched THEN [hist EXCEPT !.dispatched = TRUE]
                         ELSE hist
              /\ last' = [Idle EXCEPT
                            !.op = "AddToQueue",
                            !.status = IF dispatched /\ dispatch_ok THEN "ok"
                                       ELSE "error",
                            !.bind_called = TRUE,
                            !.bound = b.bound,
                            !.dispatched = dispatched,
                            !.wgs = IF dispatched
                                    THEN conv_params_.work_group_size
                                    ELSE <<0, 0, 0>>,
                            !.grid = IF dispatched
                                     THEN GetGridSize(conv_params_, dst)
                                     ELSE <<0, 0, 0>>]
  /\ UNCHANGED <<device, definition, attr, slices, kernel_is_1, stride_,
                 padding_, kernel_size_, dilation_, conv_params_, src_, dst_,
                 kernel_, code>>

-----------------------------------------------------------------------------
(* Specification Spec: one Conv3D operator, constructed from its attributes, *)
(* the attaching of its tensors, and any sequence of Compile, Tune,          *)
(* AddToQueue, move and CreateConv3D calls on it.                            *)

UnitAxis == [k |-> 1, s |-> 1, dl |-> 1, pp |-> 0, pa |-> 0]
AxisAttributes == {UnitAxis, [k |-> 3, s |-> 2, dl |-> 2, pp |-> 1, pa |-> 1]}
InputChannels == {7}
OutputChannels == {7}
OutputShape == [Width |-> 5, Height |-> 3, Depth |-> 2]
\* the device classes with different configurations: the generic class
\* selects the configuration of Adreno
OperatorDevices == Devices \ {"Other"}
OperatorPrecisions == {"F32", "F16"}
OperatorStorageTypes == {"TEXTURE_2D"}

\* the operator definitions: F32 without a batch, F16 with the batch folded
\* into the width
OperatorDefinitions ==
  {def \in [precision : OperatorPrecisions, storage : OperatorStorageTypes,
            batch : BOOLEAN] : def.batch = (def.precision = "F16")}

OperatorAttributes ==
  [w : AxisAttributes, h : AxisAttributes, d : AxisAttributes,
   i : InputChannels, o : OutputChannels]

\* the attributes CreateConv3D is called with on an existing operator; the
\* device of the creation context is the one the operator was built for
ReplacementAttributes ==
  {a \in OperatorAttributes : a.w = a.h /\ a.d # UnitAxis}

\* Conv3D::Conv3D(definition, attr, device): the fields of the operator it
\* constructs; its kernel_ is empty and its arguments are undeclared
Constructed(dev, def, a) ==
  [stride_ |-> <<a.w.s, a.h.s, a.d.s>>,
   padding_ |-> <<-a.w.pp, -a.h.pp, -a.d.pp>>,
   kernel_size_ |-> <<a.w.k, a.h.k, a.d.k>>,
   dilation_ |-> <<a.w.dl, a.h.dl, a.d.dl>>,
   conv_params_ |-> GuessBestParamsAttr(dev, def, a),
   kernel_ |-> None,
   definition |-> def,
   args_ |-> NoArgs]

\* the source and destination tensors the caller attaches to an operator of
\* that definition and those attributes
SrcTensor(def) == [Batch |-> IF def.batch THEN 2 ELSE 1]

DstTensor(def, a) ==
  [Width |-> OutputShape.Width, Height |-> OutputShape.Height,
   Depth |-> OutputShape.Depth, Slices |-> AttrSlices(a).dst,
   Batch |-> IF def.batch THEN 2 ELSE 1]

\* Conv3D::operator=(Conv3D&&): the fields of *this after the assignment of
\* `operation`.  stride_, padding_, kernel_size_, dilation_ and conv_params_
\* are swapped in, kernel_ is moved in, and GPUOperation::operator= moves the
\* definition and the arguments in.
MoveAssigned(operation) ==
  [stride_ |-> operation.stride_,
   padding_ |-> operation.padding_,
   kernel_size_ |-> operation.kernel_size_,
   dilation_ |-> operation.dilation_,
   conv_params_ |-> operation.conv_params_,
   kernel_ |-> operation.kernel_,
   definition |-> operation.definition,
   args_ |-> operation.args_]

\* GPUOperation::SetSrc(ptr, 0) and GPUOperation::SetDst(ptr, 0), which the
\* owner of the operator calls one after the other, on an operator without
\* tensors
SetSrcAndDst ==
  /\ Alive
  /\ Len(src_) = 0 /\ Len(dst_) = 0
  /\ src_' = <<SrcTensor(definition)>>
  /\ dst_' = <<DstTensor(definition, attr)>>
  /\ UNCHANGED <<device, definition, attr, slices, kernel_is_1, stride_,
                 padding_, kernel_size_, dilation_, conv_params_, args_,
                 kernel_, code, grid, last, hist, nops>>

\* Conv3D::Conv3D: no tensor is attached yet
Init ==
  /\ device \in OperatorDevices
  /\ definition \in OperatorDefinitions
  /\ attr \in OperatorAttributes
  /\ stride_ = Constructed(device, definition, attr).stride_
  /\ padding_ = Constructed(device, definition, attr).padding_
  /\ kernel_size_ = Constructed(device, definition, attr).kernel_size_
  /\ dilation_ = Constructed(device, definition, attr).dilation_
  /\ slices = AttrSlices(attr)
  /\ kernel_is_1 = AttrKernelIs1(attr)
  /\ conv_params_ = Constructed(device, definition, attr).conv_params_
  /\ src_ = <<>>
  /\ dst_ = <<>>
  /\ args_ = Constructed(device, definition, attr).args_
  /\ kernel_ = Constructed(device, definition, attr).kernel_
  /\ code = <<>>
  /\ grid = <<0, 0, 0>>
  /\ last = Idle
  /\ hist = NoHistory
  /\ nops = 0

\* Conv3D::Conv3D(Conv3D&&): the operator constructed from this one takes
\* over stride_, padding_, kernel_size_, dilation_, conv_params_, the kernel
\* and the GPUOperation base (definition, tensors, arguments) as they are;
\* the model follows the constructed operator.
MoveConstruct ==
  /\ nops < MaxOps
  /\ Alive
  /\ nops' = nops + 1
  /\ last' = [Idle EXCEPT !.op = "MoveConstruct"]
  /\ UNCHANGED <<device, definition, attr, slices, kernel_is_1, stride_,
                 padding_, kernel_size_, dilation_, conv_params_, src_, dst_,
                 args_, kernel_, code, grid, hist>>

\* CreateConv3D(creation_context, definition, attr, result) on this operator:
\* *result = Conv3D(definition, attr, device), then UploadData.  The operator
\* becomes the newly constructed one: no source has been generated for it,
\* nothing is declared or compiled, and no tensor is attached (the vectors
\* moved in from the temporary are empty).  upload_ok is the outcome of the
\* external UploadData.
CreateConv3D(new_device, new_definition, new_attr, upload_ok) ==
  /\ nops < MaxOps
  /\ Alive
  /\ nops' = nops + 1
  /\ LET op == MoveAssigned(Constructed(new_device, new_definition, new_attr))
     IN  /\ stride_' = op.stride_
         /\ padding_' = op.padding_
         /\ kernel_size_' = op.kernel_size_
         /\ dilation_' = op.dilation_
         /\ conv_params_' = op.conv_params_
         /\ kernel_' = op.kernel_
         /\ definition' = op.definition
         /\ args_' = op.args_
  /\ device' = new_device
  /\ attr' = new_attr
  /\ slices' = AttrSlices(new_attr)
  /\ kernel_is_1' = AttrKernelIs1(new_attr)
  /\ src_' = <<>>
  /\ dst_' = <<>>
  /\ code' = <<>>
  /\ grid' = <<0, 0, 0>>
  /\ hist' = NoHistory
  /\ last' = [Idle EXCEPT !.op = "CreateConv3D",
                          !.status = IF upload_ok THEN "ok" ELSE "error"]

\* the outcomes of the external calls: a call that is not reached has none,
\* and is drawn as failed
SetArgumentsOutcomes(survives) == IF survives THEN BOOLEAN ELSE {FALSE}

BindOutcomes(set_args_ok) == IF set_args_ok THEN BOOLEAN ELSE {FALSE}

SearchOutcomes(bind_ok) ==
  IF bind_ok THEN WorkGroupCandidates \cup {<<0, 0, 0>>} ELSE {<<0, 0, 0>>}

DispatchOutcomes(bind_ok) == IF bind_ok THEN BOOLEAN ELSE {FALSE}

Next ==
  \/ \E compile_ok \in BOOLEAN : Compile(compile_ok)
  \/ TuneSkip
  \/ \E src \in SrcRead, dst \in DstRead, survives \in SurvivalOutcomes :
       \E set_args_ok \in SetArgumentsOutcomes(survives) :
         \E bind_ok \in BindOutcomes(set_args_ok) :
           \E best \in SearchOutcomes(bind_ok) :
             TuneSearch(src, dst, survives, set_args_ok, bind_ok, best)
  \/ \E src \in SrcRead, dst \in DstRead, survives \in SurvivalOutcomes :
       \E set_args_ok \in SetArgumentsOutcomes(survives) :
         \E bind_ok \in BindOutcomes(set_args_ok) :
           \E dispatch_ok \in DispatchOutcomes(bind_ok) :
             AddToQueue(src, dst, survives, set_args_ok, bind_ok, dispatch_ok)
  \/ SetSrcAndDst
  \/ MoveConstruct
  \/ \E new_attr \in ReplacementAttributes, upload_ok \in BOOLEAN :
       CreateConv3D(device, definition, new_attr, upload_ok)

Spec == Init /\ [][Next]_vars

-----------------------------------------------------------------------------
(* Specification SpecGen: GenerateConv3D applied to every storage type,     *)
(* upload type and combination of unit-kernel flags, over tile shapes,      *)
(* precisions, work-group sizes and launch orders within the bounds.  The   *)
(* flags derived from the operator's attributes (kernel_is_1) are those the *)
(* configuration carries, as in every constructed operator.                 *)

GenWorkGroupSizes == {<<8, 4, 1>>, <<4, 8, 1>>, <<2, 2, 2>>}

\* every structure: storage, flags, upload type, tile, unroll
StructureInputs ==
  /\ definition \in [precision : {"F32"}, storage : StorageTypes,
                     batch : {FALSE}]
  /\ conv_params_ \in
       [block_size : BlockExtents \X BlockExtents \X BlockExtents \X BlockExtents,
        work_group_size : {<<8, 4, 1>>},
        work_group_launch_order : {<<0, 1, 2>>},
        src_depth_loop_size : 1..MaxLoop,
        weights_upload_type : WeightsUploadTypes,
        x_kernel_is_1 : BOOLEAN, y_kernel_is_1 : BOOLEAN,
        z_kernel_is_1 : BOOLEAN]

\* every precision, work-group size and launch order, with and without the
\* batch folded into the width
GeometryInputs ==
  /\ definition \in [precision : Precisions, storage : {"TEXTURE_2D"},
                     batch : BOOLEAN]
  /\ conv_params_ \in
       [block_size : {<<2, 2, 1, 2>>},
        work_group_size : GenWorkGroupSizes,
        work_group_launch_order : LaunchOrders,
        src_depth_loop_size : {1},
        weights_upload_type : WeightsUploadTypes,
        x_kernel_is_1 : {FALSE}, y_kernel_is_1 : {TRUE},
        z_kernel_is_1 : {FALSE}]

InitGen ==
  /\ device = None /\ attr = None /\ slices = None
  /\ padding_ = None /\ kernel_size_ = None /\ dilation_ = None
  /\ src_ = None /\ dst_ = None /\ kernel_ = None
  /\ StructureInputs \/ GeometryInputs
  /\ kernel_is_1 = <<conv_params_.x_kernel_is_1, conv_params_.y_kernel_is_1,
                    conv_params_.z_kernel_is_1>>
  /\ stride_ = <<IF kernel_is_1[1] THEN 1 ELSE 2, 1, 1>>
  /\ args_ = NoArgs
  /\ code = <<>>
  /\ grid = <<0, 0, 0>>
  /\ last = Idle
  /\ hist = NoHistory
  /\ nops = 0

\* the call GenerateConv3D(definition_, stride_correction, conv_params_, &args_)
Generate ==
  /\ nops = 0
  /\ nops' = 1
  /\ code' = GenerateConv3D(definition, StrideCorrection(definition, stride_),
                            conv_params_)
  /\ args_' = DeclareArgs(conv_params_)
  /\ last' = [Idle EXCEPT !.op = "GenerateConv3D"]
  /\ hist' = [hist EXCEPT !.generated = TRUE]
  /\ UNCHANGED <<device, definition, attr, slices, kernel_is_1, stride_,
                 padding_, kernel_size_, dilation_, conv_params_, src_, dst_,
                 kernel_, grid>>

NextGen == Generate

SpecGen == InitGen /\ [][NextGen]_vars

-----------------------------------------------------------------------------
(* Specification SpecParams: GuessBestParams applied to every device class, *)
(* precision, slice counts and unit-kernel flags within the bounds.          *)

NoOperator ==
  /\ attr = None /\ stride_ = None /\ padding_ = None
  /\ kernel_size_ = None /\ dilation_ = None
  /\ src_ = None /\ dst_ = None /\ args_ = None /\ kernel_ = None
  /\ code = None /\ grid = None /\ last = Idle /\ hist = NoHistory
  /\ nops = 0

InitParams ==
  /\ device \in Devices
  /\ definition \in [precision : Precisions, storage : {"BUFFER"},
                     batch : {FALSE}]
  /\ slices \in [src : 1..MaxSrcSlices, dst : 1..MaxDstSlices]
  /\ kernel_is_1 \in BOOLEAN \X BOOLEAN \X BOOLEAN
  /\ conv_params_ = None
  /\ NoOperator

SelectParams ==
  /\ nops = 0
  /\ nops' = 1
  /\ last' = [Idle EXCEPT !.op = "GuessBestParams"]
  /\ conv_params_' = GuessBestParams(device, definition.precision, slices.src,
                                     slices.dst, kernel_is_1[1],
                                     kernel_is_1[2], kernel_is_1[3])
  /\ UNCHANGED <<device, definition, attr, slices, kernel_is_1, stride_,
                 padding_, kernel_size_, dilation_, src_, dst_, args_,
                 kernel_, code, grid, hist>>

NextParams == SelectParams

SpecParams == InitParams /\ [][NextParams]_vars

-----------------------------------------------------------------------------
(* The reduction loop of the parameters GuessBestParams selects: the        *)
(* parameters are selected, then the generator emits the do-while loop over *)
(* the source slices for them                                                *)

InitLoop ==
  /\ device \in Devices
  /\ definition \in [precision : Precisions, storage : {"BUFFER"},
                     batch : {FALSE}]
  /\ slices \in [src : 1..MaxSrcSlices, dst : 1..MaxDstSlices]
  /\ kernel_is_1 \in {<<TRUE, TRUE, TRUE>>, <<FALSE, FALSE, FALSE>>}
  /\ conv_params_ = None
  /\ NoOperator

EmitReductionLoop ==
  /\ nops = 1
  /\ nops' = 2
  /\ code' = GenReduction(definition, conv_params_)
  /\ last' = [Idle EXCEPT !.op = "GenReduction"]
  /\ hist' = [hist EXCEPT !.generated = TRUE]
  /\ UNCHANGED <<device, definition, attr, slices, kernel_is_1, stride_,
                 padding_, kernel_size_, dilation_, conv_params_, src_, dst_,
                 args_, kernel_, grid>>

NextLoop == SelectParams \/ EmitReductionLoop

SpecLoop == InitLoop /\ [][NextLoop]_vars

-----------------------------------------------------------------------------
(* Specification SpecGrid: GetGridSize applied to every output shape, block *)
(* size, work-group size and launch order within the bounds.                 *)

WorkGroupExtents == {1, 2}
BatchSizes == {1, 2}

InitGrid ==
  /\ device = None /\ definition = None /\ slices = None
  /\ kernel_is_1 = None
  /\ attr = None /\ stride_ = None /\ padding_ = None
  /\ kernel_size_ = None /\ dilation_ = None
  /\ src_ = None /\ args_ = None /\ kernel_ = None
  /\ code = None /\ grid = None /\ last = Idle /\ hist = NoHistory
  /\ nops = 0
  /\ dst_ \in [Width : 1..MaxExtent, Height : 1..MaxExtent,
               Depth : 1..MaxExtent, Slices : 1..MaxExtent,
               Batch : BatchSizes]
  /\ conv_params_ \in
       [block_size : BlockExtents \X BlockExtents \X BlockExtents \X BlockExtents,
        work_group_size : WorkGroupExtents \X WorkGroupExtents \X WorkGroupExtents,
        work_group_launch_order : LaunchOrders,
        src_depth_loop_size : {1},
        weights_upload_type : {"GLOBAL_MEM"},
        x_kernel_is_1 : {TRUE}, y_kernel_is_1 : {TRUE}, z_kernel_is_1 : {TRUE}]

CallGetGridSize ==
  /\ nops = 0
  /\ nops' = 1
  /\ last' = [Idle EXCEPT !.op = "GetGridSize"]
  /\ grid' = GetGridSize(conv_params_, dst_)
  /\ UNCHANGED <<device, definition, attr, slices, kernel_is_1, stride_,
                 padding_, kernel_size_, dilation_, conv_params_, src_, dst_,
                 args_, kernel_, code, hist>>

NextGrid == CallGetGridSize

SpecGrid == InitGrid /\ [][NextGrid]_vars

-----------------------------------------------------------------------------
(* Launch of one kernel: the coordinate recovery emitted into the source by *)
(* GenerateGlobalCoordinates and the grid GetGridSize computes for the same *)
(* parameters                                                                *)

LaunchBlockSizes == {<<1, 1, 1, 1>>, <<2, 1, 1, 2>>, <<1, 2, 2, 1>>,
                     <<2, 2, 2, 2>>}

InitLaunch ==
  /\ device = None /\ definition = None /\ slices = None
  /\ kernel_is_1 = None
  /\ attr = None /\ stride_ = None /\ padding_ = None
  /\ kernel_size_ = None /\ dilation_ = None
  /\ src_ = None /\ args_ = None /\ kernel_ = None
  /\ code = None /\ grid = None /\ last = Idle /\ hist = NoHistory
  /\ nops = 0
  /\ dst_ \in [Width : 1..MaxExtent, Height : 1..MaxExtent,
               Depth : 1..MaxExtent, Slices : 1..MaxExtent,
               Batch : BatchSizes]
  /\ conv_params_ \in
       [block_size : LaunchBlockSizes,
        work_group_size : WorkGroupExtents \X WorkGroupExtents \X WorkGroupExtents,
        work_group_launch_order : LaunchOrders,
        src_depth_loop_size : {1},
        weights_upload_type : {"GLOBAL_MEM"},
        x_kernel_is_1 : {TRUE}, y_kernel_is_1 : {TRUE}, z_kernel_is_1 : {TRUE}]

\* the generator emits the coordinate recovery at the head of the kernel
EmitGlobalCoordinates ==
  /\ ~hist.generated
  /\ nops' = nops + 1
  /\ code' = GenerateGlobalCoordinates(conv_params_.block_size,
                                       conv_params_.work_group_launch_order)
  /\ last' = [Idle EXCEPT !.op = "GenerateGlobalCoordinates"]
  /\ hist' = [hist EXCEPT !.generated = TRUE]
  /\ UNCHANGED <<device, definition, attr, slices, kernel_is_1, stride_,
                 padding_, kernel_size_, dilation_, conv_params_, src_, dst_,
                 args_, kernel_, grid>>

\* the dispatch computes the grid and launches it with work_group_size
LaunchGrid ==
  /\ ~hist.dispatched
  /\ nops' = nops + 1
  /\ grid' = GetGridSize(conv_params_, dst_)
  /\ last' = [Idle EXCEPT !.op = "GetGridSize",
                          !.wgs = conv_params_.work_group_size,
                          !.grid = GetGridSize(conv_params_, dst_)]
  /\ hist' = [hist EXCEPT !.dispatched = TRUE]
  /\ UNCHANGED <<device, definition, attr, slices, kernel_is_1, stride_,
                 padding_, kernel_size_, dilation_, conv_params_, src_, dst_,
                 args_, kernel_, code>>

NextLaunch == EmitGlobalCoordinates \/ LaunchGrid

SpecLaunch == InitLaunch /\ [][NextLaunch]_vars

-----------------------------------------------------------------------------
(* Claims about GetGridSize (SpecGrid) *)

\* ceil(n / d), stated by its defining property
CeilDiv(n, d) == CHOOSE q \in 0..n : q * d >= n /\ (q - 1) * d < n

\* the logical element counts named by the claim: x, y, fused slice * z
LogicalCount(a) ==
  CASE a = 0 -> CeilDiv(dst_.Width * dst_.Batch, conv_params_.block_size[1])
    [] a = 1 -> CeilDiv(dst_.Height, conv_params_.block_size[2])
    [] a = 2 -> CeilDiv(dst_.Slices, conv_params_.block_size[4]) *
                  CeilDiv(dst_.Depth, conv_params_.block_size[3])

\* C1 as stated: on every physical dimension d the returned grid, times the
\* work-group extent of d, covers the logical count of axis launch_order[d].
C1_AsStated ==
  last.op = "GetGridSize" =>
    \A d \in 0..2 :
      At(grid, d) * At(conv_params_.work_group_size, d) >=
        LogicalCount(At(conv_params_.work_group_launch_order, d))

\* C1 (amended): every returned grid extent is an exact multiple of the
\* work-group extent of its dimension d, and the number of work-groups on d
\* times the work-group extent of the logical axis placed on d
\* (launch_order[d]) is at least the logical element count of that axis.
C1_GridCoversAxis ==
  last.op = "GetGridSize" =>
    \A d \in 0..2 :
      LET a  == At(conv_params_.work_group_launch_order, d)
          wd == At(conv_params_.work_group_size, d)
      IN  /\ At(grid, d) % wd = 0
          /\ At(grid, d) >= wd
          /\ (At(grid, d) \div wd) * At(conv_params_.work_group_size, a) >=
               LogicalCount(a)

\* a permuted launch whose axis count needs more than one work-group and
\* whose last tile is partial
C1_Witness ==
  /\ last.op = "GetGridSize"
  /\ conv_params_.work_group_launch_order = <<2, 0, 1>>
  /\ conv_params_.work_group_size = <<2, 2, 1>>
  /\ LogicalCount(0) = 3
  /\ At(grid, 1) = 2 * 2

-----------------------------------------------------------------------------
(* Claims about GuessBestParams (SpecParams) *)

Selected == last.op = "GuessBestParams"

\* C2 as stated: the generic device class with 3 output and 5 input channel
\* groups gets the output-channel-group tile 3 and src_depth_loop_size 1.
C2_AsStated ==
  (Selected /\ device = "Other" /\ slices.dst = 3 /\ slices.src = 5) =>
    /\ conv_params_.block_size[4] = 3
    /\ conv_params_.src_depth_loop_size = 1

\* C2 (amended): the generic device class with 3 output and 5 input channel
\* groups gets the fixed base tile block_size.w = 2 (the generic class does
\* not refine the tile) and src_depth_loop_size 1.
C2_GenericScenario ==
  (Selected /\ device = "Other" /\ slices.dst = 3 /\ slices.src = 5) =>
    /\ conv_params_.block_size[4] = 2
    /\ conv_params_.src_depth_loop_size = 1

C2_Witness ==
  /\ Selected /\ device = "Other" /\ slices.dst = 3 /\ slices.src = 5
  /\ conv_params_.block_size = <<2, 2, 1, 2>>
  /\ conv_params_.weights_upload_type = "TEXTURES_MEM"

\* C9 as stated: src_depth_loop_size is 1, 2 or 4 for every device class,
\* precision and slice counts.
C9_AsStated ==
  Selected => conv_params_.src_depth_loop_size \in {1, 2, 4}

\* the PowerVR half-precision single-tile case in which the whole input fits
WholeInputUnroll ==
  /\ device = "PowerVR" /\ definition.precision = "F16"
  /\ slices.dst = 1 /\ slices.src <= 8

\* C9 (amended): src_depth_loop_size is 1, 2 or 4, except on PowerVR with F16
\* precision, outputChannelGroups = 1 and inputChannelGroups <= 8, where it
\* equals inputChannelGroups (any of 1..8).
C9_DepthLoopValues ==
  Selected =>
    IF WholeInputUnroll
    THEN conv_params_.src_depth_loop_size = slices.src
    ELSE conv_params_.src_depth_loop_size \in {1, 2, 4}

C9_Witness ==
  /\ Selected /\ WholeInputUnroll /\ slices.src = 7
  /\ conv_params_.src_depth_loop_size = 7

\* C10 as stated: for every device class the returned tile block_size.w
\* evenly divides outputChannelGroups or is no larger than it.
C10_AsStated ==
  Selected =>
    \/ slices.dst % conv_params_.block_size[4] = 0
    \/ conv_params_.block_size[4] <= slices.dst

\* C10 (amended): on Nvidia, PowerVR and Mali the returned tile is one of 8, 4,
\* 2 or outputChannelGroups itself (8 only on PowerVR outside F16 precision)
\* and evenly divides outputChannelGroups or is no larger than it; on Adreno
\* and on the generic class the tile is the fixed base value 2, whatever
\* outputChannelGroups is.
C10_TileRefinement ==
  Selected =>
    LET w == conv_params_.block_size[4]
    IN  IF device \in {"Nvidia", "PowerVR", "Mali"}
        THEN /\ w \in {8, 4, 2, slices.dst}
             /\ (slices.dst % w = 0 \/ w <= slices.dst)
             /\ (w = 8 => device = "PowerVR" /\ definition.precision # "F16")
        ELSE w = 2

\* a refined tile that does not divide the group count but is dominated by it
C10_Witness ==
  /\ Selected /\ device = "Mali" /\ slices.dst = 9
  /\ conv_params_.block_size[4] = 4


-----------------------------------------------------------------------------
(* Claims about Tune, under Spec *)

SearchAllowed(cp) ==
  /\ cp.weights_upload_type \in {"GLOBAL_MEM", "TEXTURES_MEM"}
  /\ cp.work_group_launch_order = <<0, 1, 2>>

TuneStep == last'.op = "Tune" /\ nops' = nops + 1

\* C3: Tune binds arguments and runs the benchmark search only when the
\* upload type is GLOBAL_MEM or TEXTURES_MEM and the launch order is
\* (0, 1, 2); in every other case it returns success, leaves work_group_size
\* (and all of conv_params_) unchanged and calls neither BindArguments nor
\* the benchmark.
C3_TuneSearchesOnlyWhenAllowed ==
  [][TuneStep =>
       IF SearchAllowed(conv_params_)
       THEN last'.bind_called
       ELSE /\ last'.status = "ok"
            /\ ~last'.bind_called
            /\ ~last'.bench_called
            /\ conv_params_' = conv_params_
            /\ args_' = args_]_vars

\* Tune has returned at once for a configuration with a launch order other
\* than (0, 1, 2)
C3_Witness ==
  /\ last.op = "Tune"
  /\ ~last.bind_called
  /\ conv_params_.work_group_launch_order # <<0, 1, 2>>
  /\ hist.generated

\* the step replaces the operator by a newly constructed one
ReplaceStep == last'.op = "CreateConv3D" /\ nops' = nops + 1

SameButWorkGroupSize(cp1, cp2) ==
  cp2 = [cp1 EXCEPT !.work_group_size = cp2.work_group_size]

\* C7 as stated: on one operator (until CreateConv3D replaces it)
\* work_group_size changes at most once in total, only in Tune, only after
\* the source was generated and before the first dispatch; no other field of
\* conv_params_ changes.
C7_AsStated ==
  [][(conv_params_' # conv_params_ /\ ~ReplaceStep) =>
       /\ TuneStep
       /\ SameButWorkGroupSize(conv_params_, conv_params_')
       /\ hist.generated
       /\ ~hist.dispatched
       /\ hist.wgs_changes = 0]_vars

\* C7 (amended): on one operator (until CreateConv3D replaces it)
\* conv_params_ changes only in a Tune call that ran the benchmark search,
\* only after the source was generated, and only in its work_group_size
\* field; Compile, AddToQueue and the move constructor never change it.
\* Tune may change work_group_size any number of times, also after a
\* dispatch.
C7_OnlyTuneChangesWorkGroupSize ==
  [][(conv_params_' # conv_params_ /\ ~ReplaceStep) =>
       /\ TuneStep
       /\ last'.bench_called
       /\ SameButWorkGroupSize(conv_params_, conv_params_')
       /\ hist.generated]_vars

\* work_group_size has been changed after a dispatch
C7_Witness ==
  /\ last.op = "Tune"
  /\ hist.dispatched
  /\ hist.wgs_changes >= 1
  /\ conv_params_.work_group_size = <<16, 2, 1>>

-----------------------------------------------------------------------------
(* Claims about the integer parameters, under Spec *)

NonUnitAxes(cp) ==
  {a \in {"x", "y", "z"} :
     \/ a = "x" /\ ~cp.x_kernel_is_1
     \/ a = "y" /\ ~cp.y_kernel_is_1
     \/ a = "z" /\ ~cp.z_kernel_is_1}

ExpectedInts(cp) ==
  {"grid_size_s"}
  \cup {"stride_" \o a : a \in NonUnitAxes(cp)}
  \cup {"padding_" \o a : a \in NonUnitAxes(cp)}
  \cup {"kernel_size_" \o a : a \in NonUnitAxes(cp)}
  \cup {"dilation_" \o a : a \in NonUnitAxes(cp)}

SetNames(args) == {p[1] : p \in args.set}

\* C8: the integer parameters BindArguments sets are those GenerateConv3D
\* declared: stride, padding, kernel_size and dilation of exactly the axes
\* whose unit-kernel flag is false, and grid_size_s; none is set undeclared;
\* every BindArguments that follows the generation sets all of them, whether
\* or not the later external calls succeed; and when the kernel is bound
\* (args_.Bind reached) every declared one has been set.
C8_BoundIntsAreDeclaredInts ==
  /\ SetNames(args_) \subseteq Range(args_.ints)
  /\ hist.generated => Range(args_.ints) = ExpectedInts(conv_params_)
  /\ last.bind_called /\ hist.generated =>
       SetNames(args_) = ExpectedInts(conv_params_)
  /\ last.bind_called /\ last.status = "ok" => last.bound
  /\ last.bound =>
       /\ hist.generated
       /\ SetNames(args_) = Range(args_.ints)
       /\ SetNames(args_) = ExpectedInts(conv_params_)

\* arguments have been bound for a kernel with unit x and non-unit y and z
C8_Witness ==
  /\ last.bound
  /\ conv_params_.x_kernel_is_1
  /\ ~conv_params_.y_kernel_is_1
  /\ ~conv_params_.z_kernel_is_1
  /\ Cardinality(SetNames(args_)) = 9

-----------------------------------------------------------------------------
(* Claims about the generation inside Compile, under Spec *)

ConfigurationFlags(cp) == <<cp.x_kernel_is_1, cp.y_kernel_is_1, cp.z_kernel_is_1>>

\* the source ends with the closing brace of the kernel and the two tensors
\* and the parameters of exactly the non-unit axes of cp are declared
GenerationSucceeded(cp) ==
  /\ Len(code) > 0
  /\ \E l \in DOMAIN code : code[l].k = "kernel_open"
  /\ code[Len(code)].t = "}"
  /\ Range(args_.refs) = {"src_tensor", "dst_tensor"}
  /\ Range(args_.ints) = ExpectedInts(cp)

-----------------------------------------------------------------------------
(* Claims about the generated source, under SpecGen *)

Generated == last.op = "GenerateConv3D"

Kind(i) == code[i].k
LinesOf(kind) == {i \in DOMAIN code : Kind(i) = kind}
TheLine(kind) == CHOOSE i \in LinesOf(kind) : TRUE

BraceOpen == {"kernel_open", "for", "do", "if_lid", "if_write"}
BraceClose == {"while", "close"}

Opens == {i \in DOMAIN code : Kind(i) \in BraceOpen}
Closes == {i \in DOMAIN code : Kind(i) \in BraceClose}

\* the brace nesting depth after line i
Depth(i) ==
  Cardinality({j \in Opens : j <= i}) - Cardinality({j \in Closes : j <= i})

\* no brace closes more than was opened, and the last line closes the last
\* open brace
Balanced ==
  LET opens == Opens
      closes == Closes
  IN  /\ \A c \in closes :
           Cardinality({j \in opens : j < c}) >=
             Cardinality({j \in closes : j <= c})
      /\ Cardinality(opens) = Cardinality(closes)
      /\ Len(code) \in closes

\* the axes of the spatial loops, outermost first
LoopAxes == [j \in 1..Len(SelectSeq(code, LAMBDA l : l.k = "for")) |->
               SelectSeq(code, LAMBDA l : l.k = "for")[j].a]

ExpectedLoopAxes(cp) ==
  (IF cp.z_kernel_is_1 THEN <<>> ELSE <<"z">>)
  \o (IF cp.y_kernel_is_1 THEN <<>> ELSE <<"y">>)
  \o (IF cp.x_kernel_is_1 THEN <<>> ELSE <<"x">>)

RECURSIVE ClosingsFrom(_)
\* the number of consecutive closing lines starting at line i
ClosingsFrom(i) ==
  IF i \in DOMAIN code /\ Kind(i) = "close" THEN 1 + ClosingsFrom(i + 1) ELSE 0

\* C4: the source has one spatial loop per axis whose flag is false, nested
\* in the order z, y, x, each directly inside the previous one; one do ...
\* while reduction loop inside them; and right after the reduction loop as
\* many closings as spatial loops were opened, each closing one of them.
\* With all three flags true there is no spatial loop.
C4_LoopStructure ==
  Generated =>
    /\ LoopAxes = ExpectedLoopAxes(conv_params_)
    /\ Cardinality(LinesOf("do")) = 1
    /\ Cardinality(LinesOf("while")) = 1
    /\ \A i \in LinesOf("for") : i < TheLine("do")
    /\ TheLine("do") < TheLine("while")
    /\ \A i \in LinesOf("for") :
         Depth(i) = 1 + Cardinality({j \in LinesOf("for") : j <= i})
    /\ Depth(TheLine("do")) = 2 + Len(LoopAxes)
    /\ Depth(TheLine("while")) = 1 + Len(LoopAxes)
    /\ ClosingsFrom(TheLine("while") + 1) = Len(LoopAxes)
    /\ Depth(TheLine("while") + Len(LoopAxes)) = 1
    /\ Balanced
    /\ Is1x1x1(conv_params_) => LinesOf("for") = {}

\* a source with the y and x loops only has been generated
C4_Witness ==
  /\ Generated
  /\ LoopAxes = <<"y", "x">>
  /\ conv_params_.z_kernel_is_1

LocalDeclText(n) == "  __local FLT4 weights_cache[" \o ToString(n) \o "];"

\* C5: with LOCAL_MEM_BY_THREADS or LOCAL_MEM_ASYNC_SUBGROUP the source
\* declares one __local weights_cache of block_size.w * 4 *
\* src_depth_loop_size elements; with GLOBAL_MEM or TEXTURES_MEM it
\* declares no __local buffer.
C5_LocalCacheSize ==
  Generated =>
    IF conv_params_.weights_upload_type \in
         {"LOCAL_MEM_BY_THREADS", "LOCAL_MEM_ASYNC_SUBGROUP"}
    THEN /\ Cardinality(LinesOf("local_decl")) = 1
         /\ code[TheLine("local_decl")].t =
              LocalDeclText(conv_params_.block_size[4] * 4 *
                            conv_params_.src_depth_loop_size)
    ELSE LinesOf("local_decl") = {}

\* a source with a 16-element local cache (tile 2, unroll 2) was generated
C5_Witness ==
  /\ Generated
  /\ conv_params_.weights_upload_type = "LOCAL_MEM_BY_THREADS"
  /\ conv_params_.block_size[4] = 2
  /\ conv_params_.src_depth_loop_size = 2
  /\ \E i \in DOMAIN code : code[i].t = LocalDeclText(16)

-----------------------------------------------------------------------------
(* Claims about source reads and their validity masks, under SpecGen *)

AxisFlag(cp, a) ==
  IF a = "x" THEN cp.x_kernel_is_1
  ELSE IF a = "y" THEN cp.y_kernel_is_1 ELSE cp.z_kernel_is_1

AxisIndex(a) == IF a = "x" THEN 1 ELSE IF a = "y" THEN 2 ELSE 3

\* the ids zyx of the spatial tile
TileIds(cp) ==
  {Id(z, y, x) : z \in 0..(cp.block_size[3] - 1),
                 y \in 0..(cp.block_size[2] - 1),
                 x \in 0..(cp.block_size[1] - 1)}

LinesOfAt(kind, a) == {i \in DOMAIN code : code[i].k = kind /\ code[i].a = a}

MaskDeclText(a, i, extent) ==
  "  bool m" \o a \o ToString(i) \o " = " \o a \o "ck" \o ToString(i) \o
  " >= 0 && " \o a \o "ck" \o ToString(i) \o " < args.src_tensor." \o extent \o
  "();"

AxisExtent(a) == IF a = "x" THEN "Width" ELSE IF a = "y" THEN "Height" ELSE "Depth"

\* C11: with IMAGE_BUFFER storage and a non-unit kernel on some axis, the
\* source declares a validity flag for every tile position of every axis
\* that has a runtime loop, declares one dz step per tile element before
\* the reduction loop, reads every source value through its address src_a
\* (no coordinates), and follows every read directly by src_a += dz.
C11_ImageBufferAddressStep ==
  Generated /\ definition.storage = "IMAGE_BUFFER" /\ ~Is1x1x1(conv_params_) =>
    /\ \A a \in NonUnitAxes(conv_params_) :
         \A i \in 0..(conv_params_.block_size[AxisIndex(a)] - 1) :
           \E l \in LinesOfAt("mask", a) :
             /\ code[l].t = MaskDeclText(a, i, AxisExtent(a))
             /\ l < TheLine("do")
    /\ \A id \in TileIds(conv_params_) :
         /\ Cardinality(LinesOfAt("dz", id)) = 1
         /\ \A l \in LinesOfAt("dz", id) : l < TheLine("do")
         /\ Cardinality(LinesOfAt("read_src", id)) =
              conv_params_.src_depth_loop_size
    /\ \A l \in LinesOf("read_src") :
         /\ TheLine("do") < l /\ l < TheLine("while")
         /\ code[l].t = "    src" \o code[l].a \o
                        " = args.src_tensor.Read(src_a_" \o code[l].a \o ");"
         /\ code[l + 1].k = "address_step"
         /\ code[l + 1].t = "    src_a_" \o code[l].a \o " += dz_" \o
                            code[l].a \o ";"
    /\ LinesOf("get_address") \cup LinesOf("select_address") \cup LinesOf("dz")
         \subseteq 1..TheLine("do")

\* an IMAGE_BUFFER source with a runtime loop on y only, a tile of two
\* positions on y and two reads per iteration was generated
C11_Witness ==
  /\ Generated
  /\ definition.storage = "IMAGE_BUFFER"
  /\ NonUnitAxes(conv_params_) = {"y"}
  /\ conv_params_.block_size[2] = 2
  /\ conv_params_.src_depth_loop_size = 2
  /\ Cardinality(LinesOf("address_step")) >= 4

-----------------------------------------------------------------------------
(* Claims about shared-memory staging, under SpecGen *)

LocalMemModes == {"LOCAL_MEM_BY_THREADS", "LOCAL_MEM_ASYNC_SUBGROUP"}

\* the statements that write weights_cache, the barriers, and the
\* statements that read weights_cache (in a local-memory mode every
\* multiply-add and every result line reads it)
StagingWrites == LinesOf("upload") \cup LinesOf("async_copy")
Barriers == LinesOf("barrier")
CacheReads == LinesOf("fma") \cup LinesOf("result")

InLoop(i) == TheLine("do") < i /\ i < TheLine("while")

\* a barrier stands between staging write w and the first read after it
BarrierBeforeNextRead(w) ==
  /\ \E r \in CacheReads : r > w
  /\ \E b \in Barriers :
       /\ w < b
       /\ \A r \in CacheReads : r > w => b < r

\* a barrier stands before staging write w, after every earlier read of the
\* same pass (for a write in the reduction loop: inside the loop body, so
\* that it also separates the write from the reads of the previous iteration)
BarrierBeforeWrite(w) ==
  \E b \in Barriers :
    /\ b < w
    /\ InLoop(w) => InLoop(b)
    /\ \A r \in CacheReads : r < w => r < b

\* C12 as stated: in both local-memory modes every staging write is followed
\* by a barrier before the first read of weights_cache, and in
\* LOCAL_MEM_BY_THREADS a barrier also precedes every staging write.
C12_AsStated ==
  Generated /\ conv_params_.weights_upload_type \in LocalMemModes =>
    /\ \A w \in StagingWrites : BarrierBeforeNextRead(w)
    /\ conv_params_.weights_upload_type = "LOCAL_MEM_BY_THREADS" =>
         \A w \in StagingWrites : BarrierBeforeWrite(w)

\* C12 (amended): in LOCAL_MEM_BY_THREADS every staging write (weights in
\* the reduction loop, bias after it) is followed by a barrier before the
\* first read of weights_cache and preceded by a barrier that separates it
\* from the earlier reads.  In LOCAL_MEM_ASYNC_SUBGROUP the source has no
\* barrier at all: the two async_work_group_copy statements (first statement
\* of the loop body, and bias after the loops) are followed by the reads
\* with nothing in between to wait on.
C12_BarriersByThreadsOnly ==
  Generated =>
    /\ conv_params_.weights_upload_type = "LOCAL_MEM_BY_THREADS" =>
         /\ StagingWrites # {}
         /\ LinesOf("async_copy") = {}
         /\ \E w \in StagingWrites : InLoop(w)
         /\ \E w \in StagingWrites : w > TheLine("while")
         /\ \A w \in StagingWrites :
              BarrierBeforeNextRead(w) /\ BarrierBeforeWrite(w)
    /\ conv_params_.weights_upload_type = "LOCAL_MEM_ASYNC_SUBGROUP" =>
         /\ Barriers = {}
         /\ LinesOf("upload") = {}
         /\ Cardinality(LinesOf("async_copy")) = 2
         /\ TheLine("do") + 1 \in LinesOf("async_copy")
         /\ \E w \in LinesOf("async_copy") : w > TheLine("while")
         /\ \A w \in StagingWrites : \E r \in CacheReads : r > w
    /\ conv_params_.weights_upload_type \notin LocalMemModes =>
         StagingWrites = {} /\ Barriers = {}

\* a LOCAL_MEM_ASYNC_SUBGROUP source was generated: it stages and reads
\* weights_cache without a barrier
C12_Witness ==
  /\ Generated
  /\ conv_params_.weights_upload_type = "LOCAL_MEM_ASYNC_SUBGROUP"
  /\ Cardinality(StagingWrites) = 2
  /\ Barriers = {}

EarlyReturns == LinesOf("bounds_gate") \cup LinesOf("slice_gate")

\* line l stands inside the block of an if on the thread index
InsideLidBranch(l) ==
  \E i \in LinesOf("if_lid") :
    /\ i < l
    /\ \A c \in LinesOf("close") : c > i => c > l

Convergent(l) ==
  /\ ~InsideLidBranch(l)
  /\ \A g \in EarlyReturns : l < g

UploadGroups(cp, elements) == elements \div TotalWorkItems(cp)
UploadRemainder(cp, elements) == elements % TotalWorkItems(cp)

\* C13 as stated: in the local-memory modes no staging statement and no
\* barrier stands inside a conditional on the thread index or after a
\* thread-dependent early return.
C13_AsStated ==
  Generated /\ conv_params_.weights_upload_type \in LocalMemModes =>
    \A l \in StagingWrites \cup Barriers : Convergent(l)

\* C13 (amended): in the local-memory modes every barrier and every
\* async_work_group_copy stands outside any conditional on the thread index,
\* and no early return (bounds gate or slice gate) precedes any staging
\* statement or barrier.  The per-thread copies of the whole multiples of the
\* work-group size are unconditional as well; the copy of the remaining
\* elements_to_upload % total_work_items elements, when there are any,
\* stands alone inside if (lid < remainder) { ... }.
C13_BarriersConvergent ==
  Generated /\ conv_params_.weights_upload_type \in LocalMemModes =>
    /\ \A l \in Barriers \cup LinesOf("async_copy") : Convergent(l)
    /\ \A l \in StagingWrites \cup Barriers : \A g \in EarlyReturns : l < g
    /\ \A i \in LinesOf("if_lid") :
         /\ code[i + 1].k = "upload"
         /\ code[i + 2].k = "close"
    /\ conv_params_.weights_upload_type = "LOCAL_MEM_BY_THREADS" =>
         /\ Cardinality(LinesOf("if_lid")) =
              (IF UploadRemainder(conv_params_,
                                  conv_params_.block_size[4] * 4 *
                                  conv_params_.src_depth_loop_size) # 0
               THEN 1 ELSE 0)
              + (IF UploadRemainder(conv_params_,
                                    conv_params_.block_size[4]) # 0
                 THEN 1 ELSE 0)
         /\ Cardinality({l \in LinesOf("upload") : ~InsideLidBranch(l)}) =
              UploadGroups(conv_params_,
                           conv_params_.block_size[4] * 4 *
                           conv_params_.src_depth_loop_size)
              + UploadGroups(conv_params_, conv_params_.block_size[4])
    /\ conv_params_.weights_upload_type = "LOCAL_MEM_ASYNC_SUBGROUP" =>
         LinesOf("if_lid") = {}

\* a LOCAL_MEM_BY_THREADS source for 8 threads was generated: the 8 weights
\* are copied unconditionally, the 2 bias values inside if (lid < 2)
C13_Witness ==
  /\ Generated
  /\ conv_params_.weights_upload_type = "LOCAL_MEM_BY_THREADS"
  /\ conv_params_.work_group_size = <<2, 2, 2>>
  /\ \E l \in LinesOf("upload") : InsideLidBranch(l)
  /\ \E l \in LinesOf("upload") : ~InsideLidBranch(l)

-----------------------------------------------------------------------------
(* Claims about the bounds gate, under SpecGen *)

GatesBeforeLoop == {g \in LinesOf("bounds_gate") : g < TheLine("do")}
GatesAfterLoop == {g \in LinesOf("bounds_gate") : g > TheLine("while")}

\* C14 as stated: for the local-memory modes, and only for those, the
\* bounds gate stands both before and after the compute loop; the other
\* modes contain it once.
C14_AsStated ==
  Generated =>
    IF conv_params_.weights_upload_type \in LocalMemModes
    THEN Cardinality(GatesBeforeLoop) = 1 /\ Cardinality(GatesAfterLoop) = 1
    ELSE Cardinality(LinesOf("bounds_gate")) = 1

\* C14 (amended): every source contains the bounds gate exactly once.  For
\* the local-memory modes it stands after the compute loop and the bias
\* staging, before the first slice gate, and not before the loop; for
\* GLOBAL_MEM and TEXTURES_MEM it stands before the loop, before any spatial
\* loop opens, and not after it.
C14_OneBoundsGate ==
  Generated =>
    /\ Cardinality(LinesOf("bounds_gate")) = 1
    /\ code[TheLine("bounds_gate")].t = BoundsGate[1].t
    /\ IF conv_params_.weights_upload_type \in LocalMemModes
       THEN /\ GatesBeforeLoop = {}
            /\ \A l \in StagingWrites \cup Barriers : l < TheLine("bounds_gate")
            /\ \A g \in LinesOf("slice_gate") : TheLine("bounds_gate") < g
       ELSE /\ GatesAfterLoop = {}
            /\ \A l \in LinesOf("for") \cup LinesOf("accum") :
                 TheLine("bounds_gate") < l

\* a LOCAL_MEM_BY_THREADS source was generated, with its one bounds gate
\* after the loop
C14_Witness ==
  /\ Generated
  /\ conv_params_.weights_upload_type = "LOCAL_MEM_BY_THREADS"
  /\ Cardinality(GatesAfterLoop) = 1
  /\ GatesBeforeLoop = {}

-----------------------------------------------------------------------------
(* Claims about manual bounds tracking, under SpecGen *)

\* the axes on which bounds are tracked manually
TrackedAxes(def, cp) ==
  {a \in NonUnitAxes(cp) :
     \/ a \in {"x", "y"} /\ def.storage \in {"BUFFER", "IMAGE_BUFFER"}
     \/ a = "z" /\ def.storage # "TEXTURE_3D"}

ClampText(a, i, extent) ==
  "  " \o a \o "ck" \o ToString(i) \o " = clamp(" \o a \o "ck" \o ToString(i) \o
  ", 0, args.src_tensor." \o extent \o "() - 1);"

\* every tile position of axis a has its validity flag and its clamp
FlagAndClampPerPosition(a) ==
  /\ Cardinality(LinesOfAt("mask", a)) = conv_params_.block_size[AxisIndex(a)]
  /\ Cardinality(LinesOfAt("clamp", a)) = conv_params_.block_size[AxisIndex(a)]
  /\ \A i \in 0..(conv_params_.block_size[AxisIndex(a)] - 1) :
       \E l \in LinesOfAt("mask", a) :
         /\ code[l].t = MaskDeclText(a, i, AxisExtent(a))
         /\ code[l + 1].k = "clamp"
         /\ code[l + 1].t = ClampText(a, i, AxisExtent(a))

Factor(tracked, a, i) ==
  IF a \in tracked THEN " * (FLT)(m" \o a \o ToString(i) \o ")" ELSE ""

\* the product of the validity flags of the tracked axes at tile (z, y, x)
Factors(tracked, z, y, x) ==
  Factor(tracked, "x", x) \o Factor(tracked, "y", y) \o Factor(tracked, "z", z)

\* the read of tile element (z, y, x) without any factor
ReadText(def, cp, z, y, x) ==
  IF def.storage \in {"BUFFER", "IMAGE_BUFFER"}
  THEN "    src" \o Id(z, y, x) \o " = args.src_tensor.Read(src_a_" \o
       Id(z, y, x) \o ")"
  ELSE "    src" \o Id(z, y, x) \o " = args.src_tensor.Read(" \o
       GetSrcXCoord(def, cp, x) \o ", " \o GetSrcYCoord(def, cp, y) \o ", " \o
       GetSrcZCoord(def, cp, z) \o ", s)"

\* every read of every tile element carries the factors of the tracked axes
ReadsTimesFlags(tracked) ==
  \A z \in 0..(conv_params_.block_size[3] - 1),
     y \in 0..(conv_params_.block_size[2] - 1),
     x \in 0..(conv_params_.block_size[1] - 1) :
    /\ LinesOfAt("read_src", Id(z, y, x)) # {}
    /\ \A l \in LinesOfAt("read_src", Id(z, y, x)) :
         /\ InLoop(l)
         /\ code[l].t = ReadText(definition, conv_params_, z, y, x) \o
                        Factors(tracked, z, y, x) \o ";"

Flag(tracked, a, i) == IF a \in tracked THEN <<"m" \o a \o ToString(i)>> ELSE <<>>

\* the conjunction of the validity flags of the tracked axes at (z, y, x)
FlagsAnd(tracked, z, y, x) ==
  LET fs == Flag(tracked, "x", x) \o Flag(tracked, "y", y) \o Flag(tracked, "z", z)
  IN  IF Len(fs) = 1 THEN fs[1]
      ELSE IF Len(fs) = 2 THEN fs[1] \o " && " \o fs[2]
      ELSE fs[1] \o " && " \o fs[2] \o " && " \o fs[3]

\* IMAGE_BUFFER: the flags select the address (-1 when invalid) and its step
AddressTimesFlags(tracked) ==
  \A z \in 0..(conv_params_.block_size[3] - 1),
     y \in 0..(conv_params_.block_size[2] - 1),
     x \in 0..(conv_params_.block_size[1] - 1) :
    /\ \E l \in LinesOfAt("select_address", Id(z, y, x)) :
         code[l].t = "  src_a_" \o Id(z, y, x) \o " = select(-1, src_a_" \o
                     Id(z, y, x) \o ", " \o FlagsAnd(tracked, z, y, x) \o ");"
    /\ \E l \in LinesOfAt("dz", Id(z, y, x)) :
         code[l].t = "  int dz_" \o Id(z, y, x) \o
                     " = select(0, src_layer_offset, " \o
                     FlagsAnd(tracked, z, y, x) \o ");"

\* C15 as stated: on every axis with manual bounds tracking each tile
\* position has a validity flag and a clamp, and every source read in the
\* reduction loop is multiplied by the flag of each such axis.
C15_AsStated ==
  Generated =>
    /\ \A a \in TrackedAxes(definition, conv_params_) : FlagAndClampPerPosition(a)
    /\ ReadsTimesFlags(TrackedAxes(definition, conv_params_))

\* C15 (amended): on every axis with manual bounds tracking each tile
\* position has a validity flag and a clamp, and on no other axis.  For
\* every storage kind except IMAGE_BUFFER every source read in the
\* reduction loop is multiplied by the flag of each such axis.  For
\* IMAGE_BUFFER the read is multiplied by nothing; the flags are applied
\* before the loop, to the address (select(-1, address, flags)) and to its
\* step (select(0, src_layer_offset, flags)).
C15_MaskedReads ==
  Generated =>
    LET tracked == TrackedAxes(definition, conv_params_)
    IN  /\ \A a \in tracked : FlagAndClampPerPosition(a)
        /\ \A a \in {"x", "y", "z"} \ tracked :
             LinesOfAt("mask", a) = {} /\ LinesOfAt("clamp", a) = {}
        /\ IF definition.storage = "IMAGE_BUFFER"
           THEN /\ ReadsTimesFlags({})
                /\ tracked # {} => AddressTimesFlags(tracked)
                /\ tracked = {} => LinesOf("select_address") \cup LinesOf("dz") = {}
           ELSE /\ ReadsTimesFlags(tracked)
                /\ LinesOf("select_address") \cup LinesOf("dz") = {}

\* a TEXTURE_2D source with runtime loops on all axes was generated: only z
\* is tracked, and the reads carry the z flag
C15_Witness ==
  /\ Generated
  /\ definition.storage = "TEXTURE_2D"
  /\ NonUnitAxes(conv_params_) = {"x", "y", "z"}
  /\ TrackedAxes(definition, conv_params_) = {"z"}
  /\ conv_params_.block_size[3] = 2
  /\ \E l \in LinesOf("read_src") :
       code[l].t = ReadText(definition, conv_params_, 1, 0, 0) \o
                   " * (FLT)(mz1);"

-----------------------------------------------------------------------------
(* Claims about unit-kernel axes, under SpecGen *)

UpperAxis(a) == IF a = "x" THEN "X" ELSE IF a = "y" THEN "Y" ELSE "Z"

ClampedCoordText(a, i) ==
  "  int " \o a \o "c" \o ToString(i) \o " = clamp((DST_" \o UpperAxis(a) \o
  " + " \o ToString(i) \o "), 0, args.src_tensor." \o AxisExtent(a) \o
  "() - 1);"

\* the lines that declare xc<i> / yc<i> / zc<i> of axis a
CoordDecls(a) == LinesOfAt("coord", a) \cup LinesOfAt("coord_clamp", a)

UnitAxes(cp) == {"x", "y", "z"} \ NonUnitAxes(cp)

\* C16 as stated: for every axis whose unit-kernel flag is true and every
\* storage kind, the source has no loop-closing brace and no xc/yc/zc
\* declaration for that axis.
C16_AsStated ==
  Generated =>
    \A a \in UnitAxes(conv_params_) :
      LinesOfAt("close", a) = {} /\ CoordDecls(a) = {}

\* C16 (amended): for every axis whose unit-kernel flag is true and every
\* storage kind, the source has no loop, no loop-closing brace and no
\* stride/padding coordinate precompute for that axis.  For the texture
\* storage kinds it declares no xc/yc/zc for that axis either; for BUFFER
\* and IMAGE_BUFFER, which cannot read out of bounds, it declares for every
\* tile position i of that axis the clamped destination coordinate
\* int <a>c<i> = clamp((DST_<A> + i), 0, extent - 1).
C16_UnitAxisStructure ==
  Generated =>
    \A a \in UnitAxes(conv_params_) :
      /\ LinesOfAt("close", a) = {}
      /\ LinesOfAt("for", a) = {}
      /\ LinesOfAt("coord", a) = {}
      /\ IF definition.storage \in {"BUFFER", "IMAGE_BUFFER"}
         THEN /\ Cardinality(LinesOfAt("coord_clamp", a)) =
                   conv_params_.block_size[AxisIndex(a)]
              /\ \A i \in 0..(conv_params_.block_size[AxisIndex(a)] - 1) :
                   \E l \in LinesOfAt("coord_clamp", a) :
                     code[l].t = ClampedCoordText(a, i)
         ELSE LinesOfAt("coord_clamp", a) = {}

\* a BUFFER source with unit x and z axes and a looped y axis was generated:
\* it closes the y loop only and declares the clamped xc1
C16_Witness ==
  /\ Generated
  /\ definition.storage = "BUFFER"
  /\ UnitAxes(conv_params_) = {"x", "z"}
  /\ conv_params_.block_size[1] = 2
  /\ LinesOfAt("close", "y") # {}
  /\ LinesOfAt("close", "x") = {}
  /\ \E l \in LinesOfAt("coord_clamp", "x") :
       code[l].t = "  int xc1 = clamp((DST_X + 1), 0, args.src_tensor.Width() - 1);"

-----------------------------------------------------------------------------
(* Claims about the agreement of launch geometry and coordinate recovery,  *)
(* under SpecLaunch                                                         *)

Launched == hist.generated /\ hist.dispatched

\* the line of the source that recovers logical axis a (0: x, 1: y,
\* 2: fused slice * z)
RecoveryKind(a) == IF a = 0 THEN "dst_x" ELSE IF a = 1 THEN "dst_y" ELSE "linear_id_z"

\* the recovery of axis a from the group id of physical dimension d
GroupRecoveryText(a, d) ==
  CASE a = 0 -> "  int DST_X = (get_group_id(" \o ToString(d) \o
                ") * get_local_size(0) + get_local_id(0)) * " \o
                ToString(conv_params_.block_size[1]) \o ";"
    [] a = 1 -> "  int DST_Y = (get_group_id(" \o ToString(d) \o
                ") * get_local_size(1) + get_local_id(1)) * " \o
                ToString(conv_params_.block_size[2]) \o ";"
    [] a = 2 -> "  int linear_id_z = get_group_id(" \o ToString(d) \o
                ") * get_local_size(2) + get_local_id(2);"

\* the recovery of axis a from the global id of dimension a, which is
\* get_group_id(a) * get_local_size(a) + get_local_id(a)
GlobalRecoveryText(a) ==
  CASE a = 0 -> "  int DST_X = get_global_id(0) * " \o
                ToString(conv_params_.block_size[1]) \o ";"
    [] a = 1 -> "  int DST_Y = get_global_id(1) * " \o
                ToString(conv_params_.block_size[2]) \o ";"
    [] a = 2 -> "  int linear_id_z = get_global_id(2);"

\* the physical dimensions whose group id the source uses to recover a
RecoveryDims(a) ==
  {d \in 0..2 :
     \E l \in LinesOf(RecoveryKind(a)) :
       \/ code[l].t = GroupRecoveryText(a, d)
       \/ d = a /\ code[l].t = GlobalRecoveryText(a)}

\* the number of work-groups the dispatched grid has on dimension d
GroupsOn(d) == At(grid, d) \div At(conv_params_.work_group_size, d)

\* the logical indices of axis a the dispatched threads recover when a is
\* recovered from the group id of dimension d: group * local size + local id
RecoveredIndices(a, d) ==
  {g * At(conv_params_.work_group_size, a) + l :
     g \in 0..(GroupsOn(d) - 1),
     l \in 0..(At(conv_params_.work_group_size, a) - 1)}

\* C17: for every launch order and all sizes, each logical axis a (x, y,
\* fused slice * z) is recovered from the group id of exactly one physical
\* dimension d; d is the dimension on which GetGridSize places the
\* work-group count of a (grid[d] = ceil(count_a / wgs[a]) * wgs[d]); the
\* number of groups on d times work_group_size[a] is at least count_a; and
\* every logical index in [0, count_a) is recovered by a dispatched thread.
C17_LaunchMatchesRecovery ==
  Launched =>
    \A a \in 0..2 :
      /\ Cardinality(RecoveryDims(a)) = 1
      /\ \A d \in RecoveryDims(a) :
           /\ At(conv_params_.work_group_launch_order, d) = a
           /\ At(grid, d) =
                CeilDiv(LogicalCount(a), At(conv_params_.work_group_size, a)) *
                  At(conv_params_.work_group_size, d)
           /\ GroupsOn(d) * At(conv_params_.work_group_size, a) >=
                LogicalCount(a)
           /\ 0..(LogicalCount(a) - 1) \subseteq RecoveredIndices(a, d)

\* a launch in the order (1, 2, 0): x, with 3 tiles and work-groups of 2, is
\* recovered from the group id of dimension 2, which carries 2 groups
C17_Witness ==
  /\ Launched
  /\ conv_params_.work_group_launch_order = <<1, 2, 0>>
  /\ conv_params_.work_group_size = <<2, 1, 1>>
  /\ LogicalCount(0) = 3
  /\ RecoveryDims(0) = {2}
  /\ At(grid, 2) = 2
  /\ RecoveredIndices(0, 2) = 0..3

-----------------------------------------------------------------------------
(* Claims about the reduction loop of the selected parameters, under        *)
(* SpecLoop                                                                  *)

LoopEmitted == last.op = "GenReduction"

\* by how much s exceeds its value at the head of the loop body when line l
\* executes: one is added by every "s += 1" that stands before l
SOffset(incs, l) == Cardinality({j \in incs : j < l})

\* the offsets of the source reads of one iteration
SourceReadOffsets(incs, reads) == {SOffset(incs, l) : l \in reads}

\* the offset of the weights a multiply-add line uses: that of the source
\* value read last before it
WeightReadOffsets(incs, reads, fmas) ==
  LET at == [r \in reads |-> SOffset(incs, r)]
  IN  {LET before == {at[r] : r \in {q \in reads : q < l}}
       IN  CHOOSE m \in before : \A x \in before : x <= m : l \in fmas}

\* execution of do { body } while (s < Slices) from s, the body adding n to
\* s and reading at the given offsets: the value of s on exit and the
\* channel group indices read on the way
RECURSIVE LoopRun(_, _, _, _)
LoopRun(s, n, offsets, reads) ==
  LET s1 == s + n
      r1 == reads \cup {s + o : o \in offsets}
  IN  IF s1 < slices.src THEN LoopRun(s1, n, offsets, r1)
      ELSE [exit |-> s1, reads |-> r1]

\* the emitted loop, executed for a source of slices.src slices
EmittedLoopRun ==
  LET incs  == LinesOf("s_inc")
      reads == LinesOf("read_src")
      fmas  == LinesOf("fma")
  IN  LoopRun(0, Cardinality(incs),
              SourceReadOffsets(incs, reads) \cup
                WeightReadOffsets(incs, reads, fmas), {})

\* C18: for every device, precision and slice counts the selected
\* src_depth_loop_size divides the number of source slices; the emitted loop
\* body advances s by src_depth_loop_size; the loop exits with s equal to
\* Slices exactly; and no source or weight read has a channel group index
\* at or beyond Slices.
C18_DepthLoopDividesSlices ==
  LoopEmitted =>
    /\ conv_params_.src_depth_loop_size >= 1
    /\ slices.src % conv_params_.src_depth_loop_size = 0
    /\ Cardinality(LinesOf("s_inc")) = conv_params_.src_depth_loop_size
    /\ LinesOf("read_src") # {} /\ LinesOf("fma") # {}
    /\ LET run == EmittedLoopRun
       IN  run.exit = slices.src /\ run.reads = 0..(slices.src - 1)

\* Nvidia, 8 source slices, 2 destination slices: the loop is unrolled 4
\* times and exits after two iterations with s = 8
C18_Witness ==
  /\ LoopEmitted
  /\ device = "Nvidia"
  /\ slices.src = 8
  /\ conv_params_.src_depth_loop_size = 4
  /\ SourceReadOffsets(LinesOf("s_inc"), LinesOf("read_src")) = 0..3
  /\ EmittedLoopRun = [exit |-> 8, reads |-> 0..7]

-----------------------------------------------------------------------------
(* Claims about the work-group size embedded in the source, under Spec *)

ReqdWorkGroupSizeText(wgs) ==
  "__attribute__((reqd_work_group_size(" \o ToString(wgs[1]) \o ", " \o
  ToString(wgs[2]) \o ", " \o ToString(wgs[3]) \o ")))"

LidText(wgs) ==
  "  int lid = get_local_id(1) * " \o ToString(wgs[1]) \o " + get_local_id(0);"

\* the source embeds the work-group size
EmbedsWorkGroupSize == LinesOf("reqd_work_group_size") # {}

\* C19: after any sequence of Compile, Tune and AddToQueue, the source
\* embeds the work-group size exactly in the shared-memory staging modes,
\* and whenever it does, the work-group size a dispatching AddToQueue passes
\* to DispatchImplicit is the embedded one: the reqd_work_group_size
\* attribute and the lid stride carry it, and the whole source (the
\* per-thread upload split included) is the one the generator emits for it.
C19_DispatchedSizeIsEmbeddedSize ==
  (last.op = "AddToQueue" /\ last.dispatched /\ hist.generated) =>
    /\ EmbedsWorkGroupSize = NeedLocalMem(conv_params_)
    /\ LinesOf("lid") # {} => EmbedsWorkGroupSize
    /\ \A l \in LinesOf("reqd_work_group_size") :
         code[l].t = ReqdWorkGroupSizeText(last.wgs)
    /\ \A l \in LinesOf("lid") : code[l].t = LidText(last.wgs)
    /\ EmbedsWorkGroupSize =>
         code = GenerateConv3D(definition,
                               StrideCorrection(definition, stride_),
                               [conv_params_ EXCEPT !.work_group_size = last.wgs])

\* an Nvidia operator (per-thread staging) was compiled and, after one more
\* call, dispatched with the size (8, 4, 1) its source embeds
C19_Witness ==
  /\ last.op = "AddToQueue" /\ last.dispatched /\ hist.generated
  /\ nops = 3
  /\ device = "Nvidia"
  /\ conv_params_.weights_upload_type = "LOCAL_MEM_BY_THREADS"
  /\ last.wgs = <<8, 4, 1>>
  /\ \E l \in LinesOf("reqd_work_group_size") :
       code[l].t = "__attribute__((reqd_work_group_size(8, 4, 1)))"
  /\ \E l \in LinesOf("lid") :
       code[l].t = "  int lid = get_local_id(1) * 8 + get_local_id(0);"

====
